---- MODULE Spec2Model ----
(***************************************************************************)
(* Model of the OGC WCS 1.0.0 / WMS 1.3.0 key-value request layer:         *)
(* ogc.core.OGC (the dispatcher), the request parsers of                    *)
(* wcs_request_1_0_0 / wms_request_1_3_0 and the capabilities documents.    *)
(*                                                                          *)
(* Python strings are sequences of one-character strings, so that lower(),  *)
(* upper(), split(","), strip(), "in" and int() are computed character by   *)
(* character.  Exception codes, locators and texts are only ever compared   *)
(* for equality and are plain TLA+ strings.                                 *)
(***************************************************************************)
EXTENDS Integers, Sequences, FiniteSets, TLC

(***************************************************************************)
(* Bounds of the model.                                                     *)
(***************************************************************************)
\* how many key/value pairs of a request differ from a well-formed request
MaxDeviations == 1
\* how many requests are handled concurrently by one OGC instance
NumThreads == 2

(***************************************************************************)
(* String literals of the source and of the requests of the model.          *)
(***************************************************************************)
STR_GetCapabilities == <<"G", "e", "t", "C", "a", "p", "a", "b", "i", "l", "i", "t", "i", "e", "s">>
STR_DescribeCoverage == <<"D", "e", "s", "c", "r", "i", "b", "e", "C", "o", "v", "e", "r", "a", "g", "e">>
STR_GetCoverage == <<"G", "e", "t", "C", "o", "v", "e", "r", "a", "g", "e">>
STR_GetLegendGraphic == <<"G", "e", "t", "L", "e", "g", "e", "n", "d", "G", "r", "a", "p", "h", "i", "c">>
STR_GetFeatureInfo == <<"G", "e", "t", "F", "e", "a", "t", "u", "r", "e", "I", "n", "f", "o">>
STR_getmap == <<"g", "e", "t", "m", "a", "p">>
STR_getlegendgraphic == <<"g", "e", "t", "l", "e", "g", "e", "n", "d", "g", "r", "a", "p", "h", "i", "c">>
STR_WCS == <<"W", "C", "S">>
STR_WMS == <<"W", "M", "S">>
STR_wms == <<"w", "m", "s">>
STR_1_0_0 == <<"1", ".", "0", ".", "0">>
STR_1_3_0 == <<"1", ".", "3", ".", "0">>
STR_epsg_4326 == <<"e", "p", "s", "g", ":", "4", "3", "2", "6">>
STR_crs_84 == <<"c", "r", "s", ":", "8", "4">>
STR_EPSG_4326 == <<"E", "P", "S", "G", ":", "4", "3", "2", "6">>
STR_CRS_84 == <<"C", "R", "S", ":", "8", "4">>
STR_image_png == <<"i", "m", "a", "g", "e", "/", "p", "n", "g">>
STR_layer1 == <<"l", "a", "y", "e", "r", "1">>
STR_bbox_10_20_30_40 == <<"1", "0", ",", "2", "0", ",", "3", "0", ",", "4", "0">>
STR_256 == <<"2", "5", "6">>
STR_0 == <<"0">>
STR_server_address == <<"h", "t", "t", "p", ":", "/", "/", "1", "2", "7", ".", "0", ".", "0", ".", "1", ":", "5", "0", "0", "0">>
STR_empty == <<>>
STR_question == <<"?">>

\* Python's None (base_url of a request without one, unset Unicode traits):
\* a one-element sequence that is no string of characters.
NoneVal == <<"None">>

(***************************************************************************)
(* Python str / int / float built-ins, as the source uses them.             *)
(***************************************************************************)
UpperAlpha == <<"A", "B", "C", "D", "E", "F", "G", "H", "I", "J", "K", "L", "M",
                "N", "O", "P", "Q", "R", "S", "T", "U", "V", "W", "X", "Y", "Z">>

LowerAlpha == <<"a", "b", "c", "d", "e", "f", "g", "h", "i", "j", "k", "l", "m",
                "n", "o", "p", "q", "r", "s", "t", "u", "v", "w", "x", "y", "z">>

Digits == <<"0", "1", "2", "3", "4", "5", "6", "7", "8", "9">>

IndexIn(alpha, c) ==
    IF \E i \in 1..Len(alpha) : alpha[i] = c
    THEN CHOOSE i \in 1..Len(alpha) : alpha[i] = c
    ELSE 0

\* str.lower()
Lower(s) ==
    [i \in 1..Len(s) |->
        IF IndexIn(UpperAlpha, s[i]) > 0 THEN LowerAlpha[IndexIn(UpperAlpha, s[i])] ELSE s[i]]

\* str.upper()
Upper(s) ==
    [i \in 1..Len(s) |->
        IF IndexIn(LowerAlpha, s[i]) > 0 THEN UpperAlpha[IndexIn(LowerAlpha, s[i])] ELSE s[i]]

\* sub in s
Contains(s, sub) ==
    \E i \in 0..(Len(s) - Len(sub)) : SubSeq(s, i + 1, i + Len(sub)) = sub

\* s.startswith(p)
StartsWith(s, p) == Len(s) >= Len(p) /\ SubSeq(s, 1, Len(p)) = p

\* s.endswith(p)
EndsWith(s, p) == Len(s) >= Len(p) /\ SubSeq(s, Len(s) - Len(p) + 1, Len(s)) = p

\* s.split(c) for a one-character separator c: always at least one part
RECURSIVE Split(_, _)
Split(s, c) ==
    IF \A i \in 1..Len(s) : s[i] # c
    THEN <<s>>
    ELSE LET k == CHOOSE i \in 1..Len(s) : s[i] = c /\ \A j \in 1..(i - 1) : s[j] # c
         IN  <<SubSeq(s, 1, k - 1)>> \o Split(SubSeq(s, k + 1, Len(s)), c)

\* c.join(parts)
RECURSIVE Join(_, _)
Join(parts, c) ==
    IF parts = <<>> THEN <<>>
    ELSE IF Len(parts) = 1 THEN parts[1]
    ELSE parts[1] \o <<c>> \o Join(Tail(parts), c)

\* seq[::-1]
Reversed(seq) == [i \in 1..Len(seq) |-> seq[Len(seq) + 1 - i]]

\* s.split(c)[-1], were the split left out
LastPart_Whole(s, c) == s

\* s.split(c)[-1]
LastPart(s, c) == Split(s, c)[Len(Split(s, c))]

\* s.strip(): leading and trailing blanks removed
RECURSIVE Strip(_)
Strip(s) ==
    IF s = <<>> THEN s
    ELSE IF Head(s) = " " THEN Strip(Tail(s))
    ELSE IF s[Len(s)] = " " THEN Strip(SubSeq(s, 1, Len(s) - 1))
    ELSE s

\* s.replace(" ", "")
RECURSIVE RemoveBlanks(_)
RemoveBlanks(s) ==
    IF s = <<>> THEN s
    ELSE IF Head(s) = " " THEN RemoveBlanks(Tail(s))
    ELSE <<Head(s)>> \o RemoveBlanks(Tail(s))

RECURSIVE DigitsValue(_)
DigitsValue(s) ==
    IF s = <<>> THEN 0
    ELSE 10 * DigitsValue(SubSeq(s, 1, Len(s) - 1)) + (IndexIn(Digits, s[Len(s)]) - 1)

IsDigits(s) == s # <<>> /\ \A i \in 1..Len(s) : IndexIn(Digits, s[i]) > 0

\* int(s): an optional sign and decimal digits; anything else is a ValueError
ParseInt(s) ==
    IF IsDigits(s) THEN [ok |-> TRUE, v |-> DigitsValue(s)]
    ELSE IF s # <<>> /\ Head(s) = "-" /\ IsDigits(Tail(s))
         THEN [ok |-> TRUE, v |-> 0 - DigitsValue(Tail(s))]
    ELSE IF s # <<>> /\ Head(s) = "+" /\ IsDigits(Tail(s))
         THEN [ok |-> TRUE, v |-> DigitsValue(Tail(s))]
    ELSE [ok |-> FALSE, v |-> 0]

\* float(s), for the whole-number coordinates the model's requests carry;
\* anything else is a ValueError
ParseFloat(s) == ParseInt(s)

\* dateutil.parser.parse(s): the model's timestamps are runs of digits (a
\* year); a string with other characters does not parse
DateParses(s) == IsDigits(s)

Abs(x) == IF x < 0 THEN 0 - x ELSE x

(***************************************************************************)
(* ogc/settings.py                                                          *)
(***************************************************************************)
\* the keys of WMS_CRS, were an entry "epsg:1" added
WMS_CRS_WithEpsg1 ==
    {<<"e", "p", "s", "g", ":", "3", "8", "5", "7">>, STR_epsg_4326, STR_crs_84,
     <<"e", "p", "s", "g", ":", "1">>}

WMS_CRS == {<<"e", "p", "s", "g", ":", "3", "8", "5", "7">> (* epsg:3857 *), STR_epsg_4326, STR_crs_84}

WCS_CRS == {STR_epsg_4326, STR_crs_84}

MAX_GRID_COORDS_REQUEST_SIZE == 1024 * 1024

\* GetMap.output_format / GetLegendGraphic.output_format: the Enum's values
WMS_OUTPUT_FORMATS == {STR_image_png, <<"i", "m", "a", "g", "e", "/", "p", "n", "g", ";", " ", "m", "o", "d", "e", "=", "8", "b", "i", "t">> (* image/png; mode=8bit *), <<"i", "m", "a", "g", "e", "/", "p", "n", "g", ";", "m", "o", "d", "e", "=", "8", "-", "b", "i", "t">> (* image/png;mode=8-bit *)}

\* GetMap.validate compares abs(round(x, 9)) with 20037508.342789244; the
\* model's coordinates are whole numbers, for which that is abs(x) > 20037508
WMS_BBOX_LIMIT == 20037508

\* GetCoverage.validate: abs(l) > 361.000 and abs(l) > 91.000
WCS_LON_LIMIT == 361

WCS_LAT_LIMIT == 91

(***************************************************************************)
(* ogc/ogc_common.py: WCSException, and the Python exceptions the parsers   *)
(* raise.                                                                   *)
(***************************************************************************)
NoExc == [type |-> "none", exception_text |-> "", exception_code |-> "", locator |-> ""]

\* a Python exception that is not a WCSException (KeyError, AssertionError,
\* ValueError, IndexError, traitlets.TraitError, ...)
PyExc(t) == [type |-> t, exception_text |-> "", exception_code |-> "", locator |-> ""]

WCSException(text, code, loc) ==
    [type |-> "WCSException", exception_text |-> text, exception_code |-> code, locator |-> loc]

\* WCSException(exception_text=text): the defaults of the other two fields
WCSExceptionText(text) == WCSException(text, "NoApplicableCode", "")

(***************************************************************************)
(* Requests: args is the lower-cased key/value map the transport layer      *)
(* hands to handle_wcs_kv / handle_wms_kv.  A key that is absent from the   *)
(* map is absent from DOMAIN args.                                          *)
(***************************************************************************)
Keys == {"service", "version", "request", "coverage", "layers", "layer", "crs",
         "request_crs", "bbox", "width", "height", "format", "time", "base_url"}

\* marks, in a form, a key that the request does not carry
Absent == <<"Absent">>

Has(args, k) == k \in DOMAIN args

MkArgs(form) == [k \in {x \in Keys : form[x] # Absent} |-> form[k]]

EmptyForm == [k \in Keys |-> Absent]

Override(form, k, v) == [form EXCEPT ![k] = v]

\* the values a key takes in the model's requests
Dom(k) ==
    CASE k = "service" -> {STR_WCS, STR_WMS, STR_wms, <<"W", "F", "S">> (* WFS *), Absent}
      [] k = "version" -> {STR_1_0_0, STR_1_3_0, Absent}
      [] k = "request" -> {STR_GetCapabilities, STR_DescribeCoverage, STR_GetCoverage,
                           <<"G", "e", "t", "M", "a", "p">> (* GetMap *), STR_getmap, STR_GetLegendGraphic,
                           STR_getlegendgraphic, STR_GetFeatureInfo, Absent}
      [] k \in {"coverage", "layers", "layer"} ->
                          {STR_layer1, <<"l", "a", "y", "e", "r", "2">> (* layer2 *), <<"l", "a", "y", "e", "r", "3">> (* layer3 *), <<"a", ".", "b">> (* a.b *), <<"l", "a", "y", "e", "r", "1", ",", "l", "a", "y", "e", "r", "2">> (* layer1,layer2 *),
                           <<"l", "a", "y", "e", "r", "1", ",", "l", "a", "y", "e", "r", "3">> (* layer1,layer3 *), STR_empty, Absent}
      [] k \in {"crs", "request_crs"} ->
                          {<<"E", "P", "S", "G", ":", "3", "8", "5", "7">> (* EPSG:3857 *), STR_EPSG_4326, STR_CRS_84, <<"E", "P", "S", "G", ":", "1">> (* EPSG:1 *), Absent}
      [] k = "bbox" -> {STR_bbox_10_20_30_40, <<"1", "0", "0", ",", "1", "0", ",", "1", "2", "0", ",", "2", "0">> (* 100,10,120,20 *), <<"0", ",", "0", ",", "2", "0", "0", "3", "7", "5", "0", "9", ",", "0">> (* 0,0,20037509,0 *),
                        <<"0", ",", "0", ",", "4", "0", "0", ",", "0">> (* 0,0,400,0 *), <<"0", ",", "9", "2", ",", "0", ",", "0">> (* 0,92,0,0 *), <<"1", ",", "1", ",", "1">> (* 1,1,1 *), <<"x", ",", "0", ",", "0", ",", "0">> (* x,0,0,0 *), Absent}
      [] k \in {"width", "height"} ->
                          {STR_256, <<"4", "0", "9", "6">> (* 4096 *), <<"4", "0", "9", "7">> (* 4097 *), STR_0, <<"-", "1">> (* -1 *), <<"x">> (* x *), Absent}
      [] k = "format" -> {STR_image_png, <<"G", "e", "o", "T", "I", "F", "F">> (* GeoTIFF *), STR_empty, Absent}
      [] k = "time" -> {<<"2", "0", "2", "0">> (* 2020 *), <<"2", "0", "2", "0", ",", "2", "0", "2", "1">> (* 2020,2021 *), <<"x">> (* x *), Absent}
      [] k = "base_url" -> {NoneVal, STR_empty, <<"h", "t", "t", "p", ":", "/", "/", "p", "?">> (* http://p? *), <<"h", "t", "t", "p", ":", "/", "/", "q">> (* http://q *), Absent}

\* Well-formed requests, as the links of servers.home(): the transport layer
\* adds base_url (None when the request has no base URL).
FormWcsGetCapabilities ==
    [EmptyForm EXCEPT !["service"] = STR_WCS, !["request"] = STR_GetCapabilities,
                      !["version"] = STR_1_0_0, !["base_url"] = NoneVal]

FormDescribeCoverage ==
    [EmptyForm EXCEPT !["service"] = STR_WCS, !["request"] = STR_DescribeCoverage,
                      !["version"] = STR_1_0_0, !["coverage"] = STR_layer1,
                      !["base_url"] = NoneVal]

FormGetCoverage ==
    [EmptyForm EXCEPT !["service"] = STR_WCS, !["version"] = STR_1_0_0,
                      !["request"] = STR_GetCoverage, !["format"] = <<"G", "e", "o", "T", "I", "F", "F">> (* GeoTIFF *),
                      !["coverage"] = STR_layer1, !["bbox"] = STR_bbox_10_20_30_40,
                      !["crs"] = STR_EPSG_4326, !["width"] = STR_256,
                      !["height"] = STR_256, !["base_url"] = NoneVal]

\* the same request in CRS:84, whose bbox gives the longitude first
FormGetCoverageCrs84 == [FormGetCoverage EXCEPT !["crs"] = STR_CRS_84]

FormWmsGetCapabilities ==
    [EmptyForm EXCEPT !["service"] = STR_WMS, !["request"] = STR_GetCapabilities,
                      !["version"] = STR_1_3_0, !["base_url"] = NoneVal]

FormGetMap ==
    [EmptyForm EXCEPT !["service"] = STR_WMS, !["request"] = <<"G", "e", "t", "M", "a", "p">> (* GetMap *),
                      !["version"] = STR_1_3_0, !["layers"] = STR_layer1,
                      !["format"] = STR_image_png, !["height"] = STR_256,
                      !["width"] = STR_256, !["crs"] = <<"E", "P", "S", "G", ":", "3", "8", "5", "7">> (* EPSG:3857 *),
                      !["bbox"] = STR_bbox_10_20_30_40, !["base_url"] = NoneVal]

FormGetMapCrs84 == [FormGetMap EXCEPT !["crs"] = STR_CRS_84]

\* a request of the operation handle_wms_kv knows and does not support
FormGetFeatureInfo ==
    [EmptyForm EXCEPT !["service"] = STR_WMS, !["request"] = STR_GetFeatureInfo,
                      !["version"] = STR_1_3_0, !["layers"] = STR_layer1,
                      !["base_url"] = NoneVal]

FormGetLegendGraphic ==
    [EmptyForm EXCEPT !["service"] = STR_WMS, !["version"] = STR_1_3_0,
                      !["request"] = STR_GetLegendGraphic, !["layer"] = STR_layer1,
                      !["format"] = STR_image_png, !["base_url"] = NoneVal]

\* the keys a request of each kind is varied in: its own and its optional ones
WcsForms ==
    { [form |-> FormWcsGetCapabilities, vary |-> {"service", "request", "version", "base_url"}],
      [form |-> FormDescribeCoverage, vary |-> {"service", "request", "version", "coverage"}],
      [form |-> FormGetCoverage,
       vary |-> {"service", "request", "version", "coverage", "crs", "request_crs",
                 "bbox", "width", "height", "format", "time"}],
      [form |-> FormGetCoverageCrs84, vary |-> {"bbox", "width", "height"}] }

WmsForms ==
    { [form |-> FormWmsGetCapabilities, vary |-> {"service", "request", "version", "base_url"}],
      [form |-> FormGetMap,
       vary |-> {"service", "request", "version", "layers", "crs", "bbox", "width",
                 "height", "format", "time"}],
      [form |-> FormGetMapCrs84, vary |-> {"bbox", "width", "height"}],
      [form |-> FormGetFeatureInfo, vary |-> {"service", "request", "version"}],
      [form |-> FormGetLegendGraphic,
       vary |-> {"service", "request", "version", "layer", "format"}] }

\* the forms that differ from form in at most n of the keys of vary
RECURSIVE Deviate(_, _, _)
Deviate(form, vary, n) ==
    IF n = 0 THEN {form}
    ELSE LET prev == Deviate(form, vary, n - 1)
         IN  prev \cup UNION { { Override(f, k, v) : v \in Dom(k) } :
                                 f \in prev, k \in vary }

\* the requests of the model
RequestArgs(forms) ==
    UNION { { MkArgs(f) : f \in Deviate(b.form, b.vary, MaxDeviations) } : b \in forms }

(***************************************************************************)
(* Request parsers: load_from_kv followed by validate.  Each returns the    *)
(* first exception its statements raise, in statement order, or NoExc and   *)
(* the parsed request.                                                      *)
(***************************************************************************)
Raised(e) == [exc |-> e, obj |-> NoneVal]

Parsed(o) == [exc |-> NoExc, obj |-> o]

\* (float(bbox[0]), float(bbox[1])), (float(bbox[2]), float(bbox[3])): the
\* first of the four that fails, IndexError for a missing part and ValueError
\* for one that is no number
BBoxFloatsExc(parts) ==
    IF \A i \in 1..4 : i <= Len(parts) /\ ParseFloat(parts[i]).ok
    THEN NoExc
    ELSE LET i == CHOOSE j \in 1..4 :
                      /\ ~(j <= Len(parts) /\ ParseFloat(parts[j]).ok)
                      /\ \A m \in 1..(j - 1) : m <= Len(parts) /\ ParseFloat(parts[m]).ok
         IN  IF i > Len(parts) THEN PyExc("IndexError") ELSE PyExc("ValueError")

\* the corners, were they left as the request gives them for "crs:84" too
BoundingBox_NoSwap(parts, crs) ==
    [lower_corner |-> <<ParseFloat(parts[1]).v, ParseFloat(parts[2]).v>>,
     upper_corner |-> <<ParseFloat(parts[3]).v, ParseFloat(parts[4]).v>>]

\* ogc_common.BoundingBox built from the parts; for "crs:84" the corners are
\* rebuilt with the two axes exchanged
BoundingBox(parts, crs) ==
    IF crs = STR_crs_84
    THEN [lower_corner |-> <<ParseFloat(parts[2]).v, ParseFloat(parts[1]).v>>,
          upper_corner |-> <<ParseFloat(parts[4]).v, ParseFloat(parts[3]).v>>]
    ELSE [lower_corner |-> <<ParseFloat(parts[1]).v, ParseFloat(parts[2]).v>>,
          upper_corner |-> <<ParseFloat(parts[3]).v, ParseFloat(parts[4]).v>>]

\* self.crs after the "crs:84" rewrite
ResolvedCrs(crs) == IF crs = STR_crs_84 THEN STR_epsg_4326 ELSE crs

------------------------------------------------------------------------------
\* wcs_request_1_0_0.GetCapabilities / wms_request_1_3_0.GetCapabilities
GetCapabilities_load_from_kv(args) ==
    IF args["request"] # STR_GetCapabilities THEN Raised(PyExc("AssertionError"))
    ELSE IF ~Has(args, "service") THEN Raised(PyExc("KeyError"))
    ELSE Parsed([service |-> Upper(args["service"])])

GetCapabilities_validate(obj, service_name) ==
    IF obj.service # service_name THEN PyExc("AssertionError") ELSE NoExc

------------------------------------------------------------------------------
\* wcs_request_1_0_0.DescribeCoverage
DescribeCoverage_load_from_kv(args) ==
    IF args["request"] # STR_DescribeCoverage THEN Raised(PyExc("AssertionError"))
    ELSE IF ~Has(args, "service") THEN Raised(PyExc("KeyError"))
    ELSE IF ~Has(args, "version") THEN Raised(PyExc("KeyError"))
    ELSE IF ~Has(args, "coverage") THEN Raised(PyExc("KeyError"))
    ELSE LET parts == Split(args["coverage"], ",")
         IN  Parsed([service |-> Upper(args["service"]),
                     version |-> args["version"],
                     identifiers |-> [i \in 1..Len(parts) |-> Strip(parts[i])]])

\* Identifier.validate: assert bool(self.value) is True
Identifier_validate(value) ==
    IF value = STR_empty \/ value = NoneVal THEN PyExc("AssertionError") ELSE NoExc

DescribeCoverage_validate(obj) ==
    IF obj.service # STR_WCS THEN PyExc("AssertionError")
    ELSE IF ~StartsWith(obj.version, STR_1_0_0) THEN PyExc("AssertionError")
    ELSE IF \E i \in 1..Len(obj.identifiers) : Identifier_validate(obj.identifiers[i]) # NoExc
         THEN PyExc("AssertionError")
    ELSE NoExc

------------------------------------------------------------------------------
\* wcs_request_1_0_0.GetCoverage
GetCoverage_load_from_kv(args) ==
    IF args["request"] # STR_GetCoverage THEN Raised(PyExc("AssertionError"))
    ELSE IF ~Has(args, "service") THEN Raised(PyExc("KeyError"))
    ELSE IF ~Has(args, "version") THEN Raised(PyExc("KeyError"))
    ELSE IF ~Has(args, "coverage") THEN Raised(PyExc("KeyError"))
    ELSE IF Has(args, "request_crs") /\ Lower(args["request_crs"]) \notin WCS_CRS
         THEN Raised(PyExc("AssertionError"))
    ELSE IF Has(args, "crs") /\ Lower(args["crs"]) \notin WCS_CRS
         THEN Raised(PyExc("AssertionError"))
    ELSE IF ~Has(args, "bbox") THEN Raised(PyExc("KeyError"))
    ELSE LET parts == Split(RemoveBlanks(args["bbox"]), ",")
             \* crs is an Enum trait without a default: it holds a value only
             \* once one of the two keys has assigned it
             crs == IF Has(args, "crs") THEN Lower(args["crs"])
                    ELSE IF Has(args, "request_crs") THEN Lower(args["request_crs"])
                    ELSE NoneVal
         IN  IF BBoxFloatsExc(parts) # NoExc THEN Raised(BBoxFloatsExc(parts))
             \* reading the unset Enum trait in self.crs == "crs:84"
             ELSE IF crs = NoneVal THEN Raised(PyExc("TraitError"))
             ELSE IF ~Has(args, "format") THEN Raised(PyExc("KeyError"))
             ELSE IF Has(args, "time") /\ Contains(args["time"], <<",">>)
                  THEN Raised(WCSException("Only one time value per request is supported.",
                                           "InvalidParameterValue", "TIME"))
             ELSE IF Has(args, "time") /\ ~DateParses(args["time"])
                  THEN Raised(PyExc("ParserError"))
             ELSE IF ~Has(args, "height") THEN Raised(PyExc("KeyError"))
             ELSE IF ~ParseInt(args["height"]).ok THEN Raised(PyExc("ValueError"))
             ELSE IF ~Has(args, "width") THEN Raised(PyExc("KeyError"))
             ELSE IF ~ParseInt(args["width"]).ok THEN Raised(PyExc("ValueError"))
             ELSE Parsed([service |-> Upper(args["service"]),
                          version |-> args["version"],
                          identifier |-> args["coverage"],
                          crs |-> ResolvedCrs(crs),
                          domain_subset_bbox |-> BoundingBox(parts, crs),
                          output_format |-> args["format"],
                          domain_subset_temporal |->
                              IF Has(args, "time") THEN args["time"] ELSE NoneVal,
                          height |-> ParseInt(args["height"]).v,
                          width |-> ParseInt(args["width"]).v])

GetCoverage_validate(obj) ==
    LET lons == <<obj.domain_subset_bbox.lower_corner[1], obj.domain_subset_bbox.upper_corner[1]>>
        lats == <<obj.domain_subset_bbox.lower_corner[2], obj.domain_subset_bbox.upper_corner[2]>>
    IN  IF obj.service # STR_WCS THEN PyExc("AssertionError")
        \* assert self.identifier, assert self.domain_subset_bbox: both are
        \* objects, which are true whatever they hold
        \* self.output_format.validate(): assert bool(self.value) is True
        ELSE IF obj.output_format = STR_empty THEN PyExc("AssertionError")
        ELSE IF obj.height = 0 THEN PyExc("AssertionError")
        ELSE IF obj.width = 0 THEN PyExc("AssertionError")
        ELSE IF \/ \E i \in 1..2 : Abs(lons[i]) > WCS_LON_LIMIT
                \/ \E i \in 1..2 : Abs(lats[i]) > WCS_LAT_LIMIT
             THEN WCSException("longitude must be between -180 and +180, latitude must be between -90 and +90",
                               "InvalidParameterValue", "BBOX")
        ELSE NoExc

------------------------------------------------------------------------------
\* wms_request_1_3_0.GetMap
GetMap_load_from_kv(args) ==
    IF Lower(args["request"]) # STR_getmap THEN Raised(PyExc("AssertionError"))
    ELSE IF ~Has(args, "service") THEN Raised(PyExc("KeyError"))
    ELSE IF ~Has(args, "version") THEN Raised(PyExc("KeyError"))
    ELSE IF ~Has(args, "layers") THEN Raised(PyExc("KeyError"))
    ELSE IF Contains(args["layers"], <<",">>) THEN Raised(PyExc("AssertionError"))
    ELSE IF Has(args, "crs") /\ Lower(args["crs"]) \notin WMS_CRS
         THEN Raised(PyExc("AssertionError"))
    ELSE IF ~Has(args, "bbox") THEN Raised(PyExc("KeyError"))
    ELSE LET parts == Split(args["bbox"], ",")
             crs == IF Has(args, "crs") THEN Lower(args["crs"]) ELSE NoneVal
         IN  IF BBoxFloatsExc(parts) # NoExc THEN Raised(BBoxFloatsExc(parts))
             \* reading the unset Enum trait in self.crs == "crs:84"
             ELSE IF crs = NoneVal THEN Raised(PyExc("TraitError"))
             ELSE IF Has(args, "time") /\ Contains(args["time"], <<",">>)
                  THEN Raised(PyExc("AssertionError"))
             \* assigning a value outside the Enum's values
             ELSE IF Has(args, "format") /\ args["format"] \notin WMS_OUTPUT_FORMATS
                  THEN Raised(PyExc("TraitError"))
             ELSE IF ~Has(args, "height") THEN Raised(PyExc("KeyError"))
             ELSE IF ~ParseInt(args["height"]).ok THEN Raised(PyExc("ValueError"))
             ELSE IF ~Has(args, "width") THEN Raised(PyExc("KeyError"))
             ELSE IF ~ParseInt(args["width"]).ok THEN Raised(PyExc("ValueError"))
             ELSE Parsed([service |-> Upper(args["service"]),
                          version |-> args["version"],
                          layer |-> args["layers"],
                          crs |-> ResolvedCrs(crs),
                          bbox |-> BoundingBox(parts, crs),
                          time |-> IF Has(args, "time") THEN args["time"] ELSE NoneVal,
                          output_format |->
                              IF Has(args, "format") THEN args["format"] ELSE NoneVal,
                          height |-> ParseInt(args["height"]).v,
                          width |-> ParseInt(args["width"]).v])

GetMap_validate(obj) ==
    LET lons == <<obj.bbox.lower_corner[1], obj.bbox.upper_corner[1]>>
        lats == <<obj.bbox.lower_corner[2], obj.bbox.upper_corner[2]>>
        bbox == lons \o lats
    IN  IF obj.service # STR_WMS THEN PyExc("AssertionError")
        \* assert self.layer, assert self.bbox: objects, always true
        ELSE IF obj.output_format = NoneVal THEN PyExc("AssertionError")
        ELSE IF obj.height = 0 THEN PyExc("AssertionError")
        ELSE IF obj.width = 0 THEN PyExc("AssertionError")
        ELSE IF \E i \in 1..4 : Abs(bbox[i]) > WMS_BBOX_LIMIT
             THEN WCSException("minx,miny,maxx,maxy must all be between -20037508.342789244 and +20037508.342789244",
                               "InvalidParameterValue", "BBOX")
        ELSE NoExc

------------------------------------------------------------------------------
\* wms_request_1_3_0.GetLegendGraphic
GetLegendGraphic_load_from_kv(args) ==
    IF args["request"] # STR_GetLegendGraphic THEN Raised(PyExc("AssertionError"))
    ELSE IF ~Has(args, "service") THEN Raised(PyExc("KeyError"))
    ELSE IF ~Has(args, "layer") THEN Raised(PyExc("KeyError"))
    ELSE IF Contains(args["layer"], <<",">>) THEN Raised(PyExc("AssertionError"))
    ELSE Parsed([service |-> Upper(args["service"]), layer |-> args["layer"]])

GetLegendGraphic_validate(obj) ==
    IF obj.service # STR_WMS THEN PyExc("AssertionError") ELSE NoExc

------------------------------------------------------------------------------
\* the request classes of the two request modules
ParserClasses ==
    {"wcs.GetCapabilities", "wcs.DescribeCoverage", "wcs.GetCoverage",
     "wms.GetCapabilities", "wms.GetMap", "wms.GetLegendGraphic"}

\* XMLNode.load_from_kv(args) on a fresh object of class cls; every
\* _load_from_kv starts by reading args["request"]
load_from_kv(cls, args) ==
    IF ~Has(args, "request") THEN Raised(PyExc("KeyError"))
    ELSE CASE cls = "wcs.GetCapabilities" -> GetCapabilities_load_from_kv(args)
           [] cls = "wms.GetCapabilities" -> GetCapabilities_load_from_kv(args)
           [] cls = "wcs.DescribeCoverage" -> DescribeCoverage_load_from_kv(args)
           [] cls = "wcs.GetCoverage" -> GetCoverage_load_from_kv(args)
           [] cls = "wms.GetMap" -> GetMap_load_from_kv(args)
           [] cls = "wms.GetLegendGraphic" -> GetLegendGraphic_load_from_kv(args)

\* obj.validate() for an object of class cls that load_from_kv has filled
validate(cls, obj) ==
    CASE cls = "wcs.GetCapabilities" -> GetCapabilities_validate(obj, STR_WCS)
      [] cls = "wms.GetCapabilities" -> GetCapabilities_validate(obj, STR_WMS)
      [] cls = "wcs.DescribeCoverage" -> DescribeCoverage_validate(obj)
      [] cls = "wcs.GetCoverage" -> GetCoverage_validate(obj)
      [] cls = "wms.GetMap" -> GetMap_validate(obj)
      [] cls = "wms.GetLegendGraphic" -> GetLegendGraphic_validate(obj)

(***************************************************************************)
(* ogc/podpac.py: the helpers that prepare args for podpac.                 *)
(***************************************************************************)
\* k.upper() for the keys of a request
UpperKey(k) ==
    CASE k = "service" -> "SERVICE"
      [] k = "version" -> "VERSION"
      [] k = "request" -> "REQUEST"
      [] k = "coverage" -> "COVERAGE"
      [] k = "layers" -> "LAYERS"
      [] k = "layer" -> "LAYER"
      [] k = "crs" -> "CRS"
      [] k = "request_crs" -> "REQUEST_CRS"
      [] k = "bbox" -> "BBOX"
      [] k = "width" -> "WIDTH"
      [] k = "height" -> "HEIGHT"
      [] k = "format" -> "FORMAT"
      [] k = "time" -> "TIME"
      [] k = "base_url" -> "BASE_URL"

\* _uppercase_for_dict_keys(args): no value of a request is a dict
uppercase_for_dict_keys(lower_dict) ==
    [K \in {UpperKey(k) : k \in DOMAIN lower_dict} |->
        lower_dict[CHOOSE k \in DOMAIN lower_dict : UpperKey(k) = K]]

\* the two slice assignments, were the second one left out
SwapPairs_FirstOnly(bbox) ==
    Reversed(SubSeq(bbox, 1, IF Len(bbox) < 2 THEN Len(bbox) ELSE 2))
        \o SubSeq(bbox, 3, Len(bbox))

\* bbox[:2] = bbox[1::-1]; bbox[2:] = bbox[-1:1:-1]
SwapPairs(bbox) ==
    Reversed(SubSeq(bbox, 1, IF Len(bbox) < 2 THEN Len(bbox) ELSE 2))
        \o Reversed(SubSeq(bbox, 3, Len(bbox)))

\* _crs84_to_epsg4326(args), args with upper-case keys
crs84_to_epsg4326(uargs) ==
    IF "CRS" \in DOMAIN uargs /\ Upper(uargs["CRS"]) = Upper(STR_CRS_84)
    THEN [K \in DOMAIN uargs |->
            IF K = "CRS" THEN STR_EPSG_4326
            ELSE IF K = "BBOX" THEN Join(SwapPairs(Split(uargs["BBOX"], ",")), ",")
            ELSE uargs[K]]
    ELSE uargs

(***************************************************************************)
(* Capabilities and CoverageDescription documents.  A document is the       *)
(* record of what its XML text says: the URLs it prints and one entry per   *)
(* coverage it lists.                                                       *)
(***************************************************************************)
\* ogc.GridCoordinates(geotransform, x_size, y_size): __init__ takes the two
\* corners from min_lat / max_lat / min_lon / max_lon.  Coordinates are in
\* arc seconds, in which the default pixel size of 1/3600 degree is 1.
GridCoordinates(geotransform, x_size, y_size) ==
    [geotransform |-> geotransform, x_size |-> x_size, y_size |-> y_size,
     LLC |-> [lat |-> geotransform[4], lon |-> geotransform[1]],
     URC |-> [lat |-> geotransform[4] + geotransform[6] * y_size,
              lon |-> geotransform[1] + geotransform[2] * x_size]]

\* GridCoordinates(): _default_geotransform and the default sizes
DefaultGrid ==
    GridCoordinates(<<0 - 180 * 3600, 1, 0, 0 - 90 * 3600, 0, 1>>, 360 * 3600, 180 * 3600)

\* wcs_response_1_0_0.Coverage, as OGC.__init__ builds it from a layer; the
\* two wgs84 corners default to the corners of the layer's grid
Coverage(layer) ==
    [identifier |-> layer.identifier, title |-> layer.title, layer |-> layer.identifier,
     wgs84_bounding_box_lower_corner_lat_lon |->
         <<layer.grid_coordinates.LLC.lat, layer.grid_coordinates.LLC.lon>>,
     wgs84_bounding_box_upper_corner_lat_lon |->
         <<layer.grid_coordinates.URC.lat, layer.grid_coordinates.URC.lon>>]

\* an element that is written "if value:": None stands for no element
Element(value) == IF value = STR_empty \/ value = NoneVal THEN NoneVal ELSE value

\* wcs_response_1_0_0.CoverageDescription.to_xml: a CoverageOffering for
\* each coverage, in order
CoverageDescription_to_xml(covs) ==
    [root |-> "CoverageDescription",
     offerings |-> [i \in 1..Len(covs) |->
                       [name |-> Element(covs[i].identifier), label |-> Element(covs[i].title)]]]

\* wcs_response_1_0_0.Capabilities.capability: the three OnlineResource hrefs
WcsCapabilities_capability(base_url) == <<base_url, base_url, base_url>>

\* Capabilities.limit_layers, were settings.WMS_LIMIT_LAYERS set
limit_layers_Enabled == TRUE

\* Capabilities.limit_layers and Capabilities.layer_subset, as the class body
\* leaves them: settings.WMS_LIMIT_LAYERS is False and settings.WMS_LAYERS
\* does not exist
limit_layers == FALSE

layer_subset == {}

\* the head of contents() and of layers(): if limit_layers, self.coverages is
\* replaced by its coverages whose identifier is in layer_subset
TrimCoverages(covs) ==
    IF limit_layers
    THEN SelectSeq(covs, LAMBDA coverage : coverage.identifier \in layer_subset)
    ELSE covs

\* wcs_response_1_0_0.Capabilities.contents: a CoverageOfferingBrief for each
\* coverage of the list it is left with
\* (the name and the label element are written only if the value is true)
WcsCapabilities_contents(covs) ==
    LET kept == TrimCoverages(covs)
    IN  [i \in 1..Len(kept) |->
            [name |-> Element(kept[i].identifier), label |-> Element(kept[i].title),
             \* lonLatEnvelope: the two gml:pos, "lon lat" each
             lonLatEnvelope |->
                 << <<kept[i].wgs84_bounding_box_lower_corner_lat_lon[2],
                      kept[i].wgs84_bounding_box_lower_corner_lat_lon[1]>>,
                    <<kept[i].wgs84_bounding_box_upper_corner_lat_lon[2],
                      kept[i].wgs84_bounding_box_upper_corner_lat_lon[1]>> >>]]

WcsCapabilities_to_xml(base_url, covs) ==
    [root |-> "WCS_Capabilities",
     online_resources |-> WcsCapabilities_capability(base_url),
     contents |-> WcsCapabilities_contents(covs)]

\* wms_response_1_3_0.Capabilities.service: <MaxWidth> and <MaxHeight>
MaxWidth == 1024

MaxHeight == 1024

\* wms_response_1_3_0.Capabilities.service: the OnlineResource href
WmsCapabilities_service(base_url) == base_url

\* wms_response_1_3_0.Capabilities.request: the two OnlineResource hrefs
WmsCapabilities_request(base_url) == <<base_url, base_url>>

\* the base of legend_link: base_url, with "?" appended unless it ends with it
LegendBase(base_url) ==
    IF EndsWith(base_url, STR_question) THEN base_url ELSE base_url \o STR_question

\* wms_response_1_3_0.Capabilities.layers: a Layer element for each coverage
WmsCapabilities_layers(base_url, covs) ==
    LET kept == TrimCoverages(covs)
    IN  [i \in 1..Len(kept) |->
            [name |-> kept[i].identifier, title |-> kept[i].title,
             legend_base |-> LegendBase(base_url)]]

WmsCapabilities_to_xml(base_url, covs) ==
    [root |-> "WMS_Capabilities",
     service |-> WmsCapabilities_service(base_url),
     request |-> WmsCapabilities_request(base_url),
     layers |-> WmsCapabilities_layers(base_url, covs)]

(***************************************************************************)
(* ogc/core.py: the OGC dispatcher.                                         *)
(***************************************************************************)
\* OGC.base_url
OGC_base_url(server_address, endpoint) == server_address \o endpoint \o STR_question

\* what a call of the dispatcher gives its caller: an XML document, a
\* {"fp", "fn"} payload descriptor, or the exception it raised
Xml(doc) == [kind |-> "xml", exc |-> NoExc, doc |-> doc, fp |-> NoneVal, fn |-> NoneVal]

Payload(fp, fn) == [kind |-> "payload", exc |-> NoExc, doc |-> NoneVal, fp |-> fp, fn |-> fn]

Raise(e) == [kind |-> "raised", exc |-> e, doc |-> NoneVal, fp |-> NoneVal, fn |-> NoneVal]

NoResponse == [kind |-> "none", exc |-> NoExc, doc |-> NoneVal, fp |-> NoneVal, fn |-> NoneVal]

\* the outcome of a handler: its response, the base_url it leaves in the
\* shared capabilities document, the Layer calls it made, how often it ran
\* gc.collect(), and the two in the order they happened: in both handlers
\* gc.collect() is run after the Layer call has returned
Outcome(response, base_url, layer_calls, gc_collects) ==
    [response |-> response, base_url |-> base_url,
     layer_calls |-> layer_calls, gc_collects |-> gc_collects,
     events |-> [i \in 1..Len(layer_calls) |-> layer_calls[i].method]
                    \o [i \in 1..gc_collects |-> "gc.collect"]]

\* gc.collect(), were the statement missing
CollectGarbage_Skipped(n) == n

\* gc.collect(): n counts the runs of the hook
CollectGarbage(n) == n + 1

\* a call that hands the Layer the args with CRS:84 rewritten
LayerCall_Normalised(coverage, method, args) ==
    [layer |-> coverage.layer, method |-> method,
     args |-> IF Has(args, "crs") /\ args["crs"] = STR_CRS_84
              THEN [args EXCEPT !["crs"] = STR_EPSG_4326]
              ELSE args]

\* a call of a Layer method: the external Layer returns a payload or raises
LayerCall(coverage, method, args) ==
    [layer |-> coverage.layer, method |-> method, args |-> args]

LayerPayload(coverage, method) == [layer |-> coverage.layer, method |-> method]

\* OGC.get_coverage_from_id: the first coverage with that identifier
get_coverage_from_id(covs, identifier) ==
    IF \E i \in 1..Len(covs) : covs[i].identifier = identifier
    THEN [exc |-> NoExc,
          coverage |-> covs[CHOOSE i \in 1..Len(covs) :
                               /\ covs[i].identifier = identifier
                               /\ \A j \in 1..(i - 1) : covs[j].identifier # identifier]]
    ELSE [exc |-> WCSException("Invalid coverage", "InvalidParameterValue", "COVERAGE"),
          coverage |-> NoneVal]

\* the except clause after load_from_kv / validate: whatever was raised, a
\* WCSException included, is replaced by the generic exception
ParseFailure(e) == WCSExceptionText("Invalid arguments")

\* the condition of the WCS version gate,
\*   "version" in args["version"] == "1.0.0"
\* a chained comparison: ("version" in args["version"]) and (args["version"] == "1.0.0")
WcsVersionSupported(args) ==
    Contains(args["version"], <<"v", "e", "r", "s", "i", "o", "n">> (* version *)) /\ args["version"] = STR_1_0_0

\* the WMS version gate, were a request without version let through
WmsVersionSupported_MissingAllowed(args) ==
    ~Has(args, "version") \/ args["version"] = STR_1_3_0

\* the condition of the WMS version gate
WmsVersionSupported(args) == Has(args, "version") /\ args["version"] = STR_1_3_0

UnsupportedVersion == WCSException("Unsupported version", "InvalidParameterValue", "VERSION")

XSizeZero ==
    WCSException("Grid coordinates x_size must be greater than 0", "InvalidParameterValue", "VERSION")

YSizeZero ==
    WCSException("Grid coordinates y_size must be greater than 0", "InvalidParameterValue", "VERSION")

GridTooLarge ==
    WCSException("Grid coordinates x_size * y_size must be less than 1048576",
                 "InvalidParameterValue", "VERSION")

\* the size check, were it to test each side instead of the product
ExceedsMaxGrid_EachSide(width, height) ==
    width > MAX_GRID_COORDS_REQUEST_SIZE \/ height > MAX_GRID_COORDS_REQUEST_SIZE

\* the condition of the request size check
ExceedsMaxGrid(width, height) == height * width > MAX_GRID_COORDS_REQUEST_SIZE

NotHandled == WCSExceptionText("KV Request not handled properly")

\* the GetCapabilities branch of both handlers after parsing: the base_url
\* the shared capabilities document holds when to_xml runs
CapabilitiesBaseUrl(args, base_url) ==
    IF args["base_url"] # NoneVal /\ args["base_url"] # STR_empty
    THEN args["base_url"]
    ELSE base_url

\* OGC.handle_wcs_kv(args), with the Layer returning (layer_ok) or raising
handle_wcs_kv(args, covs, base_url, layer_ok) ==
    IF ~Has(args, "request") THEN Outcome(Raise(PyExc("KeyError")), base_url, <<>>, 0)
    ELSE IF args["request"] = STR_GetCapabilities THEN
        LET loaded == GetCapabilities_load_from_kv(args)
        IN  IF loaded.exc # NoExc
            THEN Outcome(Raise(ParseFailure(loaded.exc)), base_url, <<>>, 0)
            ELSE IF GetCapabilities_validate(loaded.obj, STR_WCS) # NoExc
            THEN Outcome(Raise(ParseFailure(GetCapabilities_validate(loaded.obj, STR_WCS))),
                         base_url, <<>>, 0)
            ELSE IF ~Has(args, "base_url")
            THEN Outcome(Raise(PyExc("KeyError")), base_url, <<>>, 0)
            ELSE Outcome(Xml(WcsCapabilities_to_xml(CapabilitiesBaseUrl(args, base_url), covs)),
                         CapabilitiesBaseUrl(args, base_url), <<>>, 0)
    ELSE IF ~Has(args, "version") THEN Outcome(Raise(PyExc("KeyError")), base_url, <<>>, 0)
    ELSE IF ~WcsVersionSupported(args) THEN Outcome(Raise(UnsupportedVersion), base_url, <<>>, 0)
    ELSE IF args["request"] = STR_DescribeCoverage THEN
        LET loaded == DescribeCoverage_load_from_kv(args)
        IN  IF loaded.exc # NoExc
            THEN Outcome(Raise(ParseFailure(loaded.exc)), base_url, <<>>, 0)
            ELSE IF DescribeCoverage_validate(loaded.obj) # NoExc
            THEN Outcome(Raise(ParseFailure(DescribeCoverage_validate(loaded.obj))),
                         base_url, <<>>, 0)
            ELSE LET ids == loaded.obj.identifiers
                     found == [i \in 1..Len(ids) |-> get_coverage_from_id(covs, ids[i])]
                 IN  IF \E i \in 1..Len(ids) : found[i].exc # NoExc
                     THEN Outcome(Raise(found[CHOOSE i \in 1..Len(ids) :
                                                 /\ found[i].exc # NoExc
                                                 /\ \A j \in 1..(i - 1) : found[j].exc = NoExc].exc),
                                  base_url, <<>>, 0)
                     ELSE Outcome(Xml(CoverageDescription_to_xml(
                                          [i \in 1..Len(ids) |-> found[i].coverage])),
                                  base_url, <<>>, 0)
    ELSE IF args["request"] = STR_GetCoverage THEN
        LET loaded == GetCoverage_load_from_kv(args)
        IN  IF loaded.exc # NoExc
            THEN Outcome(Raise(ParseFailure(loaded.exc)), base_url, <<>>, 0)
            ELSE IF GetCoverage_validate(loaded.obj) # NoExc
            THEN Outcome(Raise(ParseFailure(GetCoverage_validate(loaded.obj))), base_url, <<>>, 0)
            ELSE LET get_coverage == loaded.obj
                     found == get_coverage_from_id(covs, get_coverage.identifier)
                     coverage == found.coverage
                 IN  IF found.exc # NoExc THEN Outcome(Raise(found.exc), base_url, <<>>, 0)
                     ELSE IF get_coverage.width = 0
                     THEN Outcome(Raise(XSizeZero), base_url, <<>>, 0)
                     ELSE IF get_coverage.height = 0
                     THEN Outcome(Raise(YSizeZero), base_url, <<>>, 0)
                     ELSE IF ExceedsMaxGrid(get_coverage.width, get_coverage.height)
                     THEN Outcome(Raise(GridTooLarge), base_url, <<>>, 0)
                     \* the Layer's exception is not caught here
                     ELSE IF ~layer_ok
                     THEN Outcome(Raise(PyExc("LayerError")), base_url,
                                  <<LayerCall(coverage, "get_coverage", args)>>, 0)
                     ELSE Outcome(Payload(LayerPayload(coverage, "get_coverage"),
                                          LastPart(coverage.identifier, ".") \o <<".", "t", "i", "f">> (* .tif *)),
                                  base_url, <<LayerCall(coverage, "get_coverage", args)>>, CollectGarbage(0))
    ELSE Outcome(Raise(NotHandled), base_url, <<>>, 0)

\* OGC.handle_wms_kv(args), with the Layer returning (layer_ok) or raising
handle_wms_kv(args, covs, base_url, layer_ok) ==
    IF ~Has(args, "request") THEN Outcome(Raise(PyExc("KeyError")), base_url, <<>>, 0)
    ELSE IF args["request"] = STR_GetCapabilities THEN
        LET loaded == GetCapabilities_load_from_kv(args)
        IN  IF loaded.exc # NoExc
            THEN Outcome(Raise(ParseFailure(loaded.exc)), base_url, <<>>, 0)
            ELSE IF GetCapabilities_validate(loaded.obj, STR_WMS) # NoExc
            THEN Outcome(Raise(ParseFailure(GetCapabilities_validate(loaded.obj, STR_WMS))),
                         base_url, <<>>, 0)
            ELSE IF ~Has(args, "base_url")
            THEN Outcome(Raise(PyExc("KeyError")), base_url, <<>>, 0)
            ELSE Outcome(Xml(WmsCapabilities_to_xml(CapabilitiesBaseUrl(args, base_url), covs)),
                         CapabilitiesBaseUrl(args, base_url), <<>>, 0)
    ELSE IF args["request"] = STR_GetFeatureInfo
    THEN Outcome(Raise(WCSException("Unsupported request", "OperationNotSupported", "REQUEST")),
                 base_url, <<>>, 0)
    ELSE IF ~WmsVersionSupported(args) THEN Outcome(Raise(UnsupportedVersion), base_url, <<>>, 0)
    ELSE IF Lower(args["request"]) = STR_getlegendgraphic THEN
        LET loaded == GetLegendGraphic_load_from_kv(args)
        IN  IF loaded.exc # NoExc
            THEN Outcome(Raise(ParseFailure(loaded.exc)), base_url, <<>>, 0)
            ELSE IF GetLegendGraphic_validate(loaded.obj) # NoExc
            THEN Outcome(Raise(ParseFailure(GetLegendGraphic_validate(loaded.obj))),
                         base_url, <<>>, 0)
            ELSE LET found == get_coverage_from_id(covs, loaded.obj.layer)
                     coverage == found.coverage
                 IN  IF found.exc # NoExc THEN Outcome(Raise(found.exc), base_url, <<>>, 0)
                     \* the Layer's exception is not caught here
                     ELSE IF ~layer_ok
                     THEN Outcome(Raise(PyExc("LayerError")), base_url,
                                  <<LayerCall(coverage, "get_legend_graphic", args)>>, 0)
                     ELSE Outcome(Payload(LayerPayload(coverage, "get_legend_graphic"),
                                          LastPart(coverage.identifier, ".") \o <<".", "p", "n", "g">> (* .png *)),
                                  base_url,
                                  <<LayerCall(coverage, "get_legend_graphic", args)>>, 0)
    ELSE IF Lower(args["request"]) = STR_getmap THEN
        LET loaded == GetMap_load_from_kv(args)
        IN  IF loaded.exc # NoExc
            THEN Outcome(Raise(ParseFailure(loaded.exc)), base_url, <<>>, 0)
            ELSE IF GetMap_validate(loaded.obj) # NoExc
            THEN Outcome(Raise(ParseFailure(GetMap_validate(loaded.obj))), base_url, <<>>, 0)
            ELSE LET get_map == loaded.obj
                     found == get_coverage_from_id(covs, get_map.layer)
                     coverage == found.coverage
                 IN  IF found.exc # NoExc THEN Outcome(Raise(found.exc), base_url, <<>>, 0)
                     ELSE IF get_map.width = 0
                     THEN Outcome(Raise(XSizeZero), base_url, <<>>, 0)
                     ELSE IF get_map.height = 0
                     THEN Outcome(Raise(YSizeZero), base_url, <<>>, 0)
                     ELSE IF ExceedsMaxGrid(get_map.width, get_map.height)
                     THEN Outcome(Raise(GridTooLarge), base_url, <<>>, 0)
                     \* the Layer's exception is caught and replaced
                     ELSE IF ~layer_ok
                     THEN Outcome(Raise(WCSExceptionText("Invalid arguments")), base_url,
                                  <<LayerCall(coverage, "get_map", args)>>, 0)
                     ELSE Outcome(Payload(LayerPayload(coverage, "get_map"),
                                          LastPart(coverage.identifier, ".") \o <<".", "p", "n", "g">> (* .png *)),
                                  base_url, <<LayerCall(coverage, "get_map", args)>>, CollectGarbage(0))
    ELSE Outcome(Raise(NotHandled), base_url, <<>>, 0)

\* wcs_capabilities.coverages, the list get_coverage_from_id scans, once a
\* handler has left: building the WCS capabilities document runs contents(),
\* which may replace it
CoveragesAfter(covs, response) ==
    IF response.kind = "xml" /\ response.doc.root = "WCS_Capabilities"
    THEN TrimCoverages(covs)
    ELSE covs

(***************************************************************************)
(* ogc/servers.py: FlaskServer.ogc_render, the GET branch with a query.     *)
(***************************************************************************)
\* the characters ogc_render keeps in a parameter value:
\*   -A-Za-z0-9+.,_/:*{}()[]"
AllowedChars ==
    {UpperAlpha[i] : i \in 1..Len(UpperAlpha)} \cup {LowerAlpha[i] : i \in 1..Len(LowerAlpha)}
        \cup {Digits[i] : i \in 1..Len(Digits)}
        \cup {"-", "+", ".", ",", "_", "/", ":", "*", "{", "}", "(", ")", "[", "]", "\""}

\* re.sub("[^...]", "", str(v))
Sanitize(v) == SelectSeq(v, LAMBDA c : c \in AllowedChars)

\* k.lower() for the keys of a query
LowerKey(K) == IF K \in Keys THEN K ELSE CHOOSE k \in Keys : UpperKey(k) = K

\* the args ogc_render builds from request.args and request.base_url
RenderArgs(query, request_base_url) ==
    [k \in {LowerKey(K) : K \in DOMAIN query} \cup {"base_url"} |->
        IF k = "base_url"
        THEN IF request_base_url # STR_empty THEN request_base_url \o STR_question ELSE NoneVal
        ELSE Sanitize(query[CHOOSE K \in DOMAIN query : LowerKey(K) = k])]

\* WCSException.to_xml: the ExceptionReport document
ExceptionReport(e) ==
    [exceptionCode |-> e.exception_code, locator |-> e.locator,
     ExceptionText |-> e.exception_text]

\* flask Response objects: respond_xml(doc, status) and send_file(fp, ...)
RespondXml(doc, status) == [status |-> status, kind |-> "xml", body |-> doc]

SendFile(fp, fn) ==
    [status |-> 200, kind |-> "file",
     body |-> [fp |-> fp, fn |-> fn, as_attachment |-> EndsWith(fn, <<"t", "i", "f">>)]]

NoHttp == [status |-> 0, kind |-> "none", body |-> NoneVal]

\* raise WCSException("No response for this combination of arguments.")
NoResponseForArgs == WCSExceptionText("No response for this combination of arguments.")

\* the two except clauses, were "except Exception" to come first
render_exception_AllInternal(e) ==
    RespondXml(ExceptionReport(WCSExceptionText("Internal application error.")), 500)

\* the two except clauses of ogc_render
render_exception(e) ==
    IF e.type = "WCSException"
    THEN RespondXml(ExceptionReport(e), 400)
    ELSE RespondXml(ExceptionReport(WCSExceptionText("Internal application error.")), 500)

\* the try block of ogc_render up to the handler's return: which handler
\* ran, and its outcome (no handler changes no capabilities document)
render_dispatch(args, covs, wcs_url, wms_url, layer_ok) ==
    IF ~Has(args, "service")
    THEN [handler |-> "none", out |-> Outcome(Raise(PyExc("KeyError")), NoneVal, <<>>, 0)]
    ELSE IF Lower(args["service"]) = <<"w", "c", "s">> (* wcs *)
    THEN [handler |-> "wcs", out |-> handle_wcs_kv(args, covs, wcs_url, layer_ok)]
    ELSE IF Lower(args["service"]) = STR_wms
    THEN [handler |-> "wms", out |-> handle_wms_kv(args, covs, wms_url, layer_ok)]
    ELSE [handler |-> "none", out |-> Outcome(Raise(NoResponseForArgs), NoneVal, <<>>, 0)]

\* the flask response ogc_render returns for what its try block produced
render_response(response) ==
    IF response.kind = "xml" THEN RespondXml(response.doc, 200)
    ELSE IF response.kind = "payload" THEN SendFile(response.fp, response.fn)
    ELSE render_exception(response.exc)

(***************************************************************************)
(* The state of one OGC instance and of the requests it is handling.        *)
(***************************************************************************)
VARIABLES
    server_address,  \* OGC.server_address
    endpoint,        \* OGC.endpoint
    coverages,       \* wcs_capabilities.coverages, shared with wms_capabilities
    wcs_base_url,    \* wcs_capabilities.base_url
    wms_base_url,    \* wms_capabilities.base_url
    phase,           \* "idle", "received" (args built), "done" (handler left)
    args,            \* the args of the request in hand
    handler,         \* the handler that was called: "wcs" or "wms"
    response,        \* what the handler returned or raised
    layer_calls,     \* the Layer calls the handler made
    gc_collects,     \* how often the handler ran gc.collect()
    events,          \* the Layer calls and gc.collect() runs, in order
    http,            \* the flask response of ogc_render
    parser,          \* the class of the request object being filled
    load_result,     \* what its load_from_kv(args) gave
    validated,       \* what its validate() gave
    converted,       \* what _crs84_to_epsg4326 made of the args
    pc,              \* concurrent GetCapabilities: where each thread is
    targs,           \* ... its args
    thandler,        \* ... its handler
    tdoc,            \* ... the parts of the document it has built so far
    tresponse        \* ... what its handler returned or raised

ogc_vars == <<server_address, endpoint, coverages, wcs_base_url, wms_base_url>>

seq_vars == <<phase, args, handler, response, layer_calls, gc_collects, events, http>>

parse_vars == <<parser, load_result, validated, converted>>

thread_vars == <<pc, targs, thandler, tdoc, tresponse>>

vars == <<ogc_vars, seq_vars, parse_vars, thread_vars>>

Threads == 1..NumThreads

NoArgs == <<>>

\* a method that has not been called yet
NotRun == [run |-> FALSE]

\* the layers of example/app.py
Layer1 == [identifier |-> STR_layer1, title |-> <<"O", "n", "e">> (* One *),
           grid_coordinates |-> DefaultGrid]

Layer2 == [identifier |-> <<"l", "a", "y", "e", "r", "2">> (* layer2 *), title |-> <<"T", "w", "o">> (* Two *),
           grid_coordinates |-> DefaultGrid]

\* a layer whose identifier has a "." in it, and one constructed with an
\* empty title (Layer.identifier and Layer.title are unrestricted Unicode)
LayerDotted == [identifier |-> <<"a", ".", "b">> (* a.b *), title |-> <<"A", "B">> (* AB *),
                grid_coordinates |-> DefaultGrid]

LayerUntitled == [identifier |-> <<"u">> (* u *), title |-> STR_empty,
                  grid_coordinates |-> DefaultGrid]

\* the OGC instances of the model: the two of example/app.py, one
\* constructed without layers, and one with the two layers above
Instances ==
    { [endpoint |-> <<"/", "o", "g", "c", "_", "f", "u", "l", "l">> (* /ogc_full *), layers |-> <<Layer1, Layer2>>],
      [endpoint |-> <<"/", "o", "g", "c">> (* /ogc *), layers |-> <<Layer1>>],
      [endpoint |-> <<"/", "o", "g", "c">> (* /ogc *), layers |-> <<>>],
      [endpoint |-> <<"/", "o", "g", "c">> (* /ogc *), layers |-> <<LayerDotted, LayerUntitled>>] }

\* OGC.__init__
Init ==
    /\ \E inst \in Instances :
        /\ server_address = STR_server_address
        /\ endpoint = inst.endpoint
        /\ coverages = [i \in 1..Len(inst.layers) |-> Coverage(inst.layers[i])]
        /\ wcs_base_url = OGC_base_url(STR_server_address, inst.endpoint)
        /\ wms_base_url = OGC_base_url(STR_server_address, inst.endpoint)
    /\ phase = "idle"
    /\ args = NoArgs
    /\ handler = "none"
    /\ response = NoResponse
    /\ layer_calls = <<>>
    /\ gc_collects = 0
    /\ events = <<>>
    /\ http = NoHttp
    /\ parser = "none"
    /\ load_result = NotRun
    /\ validated = NotRun
    /\ converted = NotRun
    /\ pc = [t \in Threads |-> "idle"]
    /\ targs = [t \in Threads |-> NoArgs]
    /\ thandler = [t \in Threads |-> "none"]
    /\ tdoc = [t \in Threads |-> NoneVal]
    /\ tresponse = [t \in Threads |-> NoResponse]

(***************************************************************************)
(* One request at a time.                                                   *)
(***************************************************************************)
\* the caller builds the args of a request
Receive ==
    /\ phase = "idle"
    /\ \E a \in RequestArgs(WcsForms \cup WmsForms) : args' = a
    /\ phase' = "received"
    /\ UNCHANGED <<ogc_vars, handler, response, layer_calls, gc_collects, events, http,
                   parse_vars, thread_vars>>

\* the caller calls OGC.handle_wcs_kv(args)
HandleWcsKv ==
    /\ phase = "received"
    /\ \E layer_ok \in BOOLEAN :
        LET out == handle_wcs_kv(args, coverages, wcs_base_url, layer_ok)
        IN  /\ response' = out.response
            /\ wcs_base_url' = out.base_url
            /\ coverages' = CoveragesAfter(coverages, out.response)
            /\ layer_calls' = out.layer_calls
            /\ gc_collects' = out.gc_collects
            /\ events' = out.events
    /\ handler' = "wcs"
    /\ phase' = "done"
    /\ UNCHANGED <<server_address, endpoint, wms_base_url, args, http,
                   parse_vars, thread_vars>>

\* the caller calls OGC.handle_wms_kv(args)
HandleWmsKv ==
    /\ phase = "received"
    /\ \E layer_ok \in BOOLEAN :
        LET out == handle_wms_kv(args, coverages, wms_base_url, layer_ok)
        IN  /\ response' = out.response
            /\ wms_base_url' = out.base_url
            /\ layer_calls' = out.layer_calls
            /\ gc_collects' = out.gc_collects
            /\ events' = out.events
    /\ handler' = "wms"
    /\ phase' = "done"
    /\ UNCHANGED <<server_address, endpoint, coverages, wcs_base_url, args, http,
                   parse_vars, thread_vars>>

\* the caller has taken the response; the request's objects are gone
Return ==
    /\ phase = "done"
    /\ phase' = "idle"
    /\ args' = NoArgs
    /\ handler' = "none"
    /\ response' = NoResponse
    /\ layer_calls' = <<>>
    /\ gc_collects' = 0
    /\ events' = <<>>
    /\ http' = NoHttp
    /\ UNCHANGED <<ogc_vars, parse_vars, thread_vars>>

Next == Receive \/ HandleWcsKv \/ HandleWmsKv \/ Return

Spec == Init /\ [][Next]_vars

(***************************************************************************)
(* Concurrent GetCapabilities requests against the same OGC instance: the   *)
(* transport layer serves each request on its own thread, and a thread may  *)
(* be preempted between the statements of the handler.  Parsing works on    *)
(* the request's own objects; the steps that touch the shared capabilities  *)
(* document are the assignment of base_url and the reads of it in to_xml.   *)
(***************************************************************************)
\* the GetCapabilities requests of the threads
CapabilitiesArgs ==
    { MkArgs(Override(f, "base_url", v)) :
        f \in {FormWcsGetCapabilities, FormWmsGetCapabilities},
        v \in {NoneVal, <<"h", "t", "t", "p", ":", "/", "/", "p", "?">> (* http://p? *), <<"h", "t", "t", "p", ":", "/", "/", "q">> (* http://q *)} }

\* servers.FlaskServer.ogc_render: the handler a request is given to
HandlerOf(a) ==
    IF Lower(a["service"]) = <<"w", "c", "s">> (* wcs *) THEN "wcs"
    ELSE IF Lower(a["service"]) = STR_wms THEN "wms"
    ELSE "none"

\* a thread enters a handler with a GetCapabilities request: load_from_kv,
\* validate, and the assignment of args["base_url"] to the shared document
CapabilitiesBegin(t) ==
    /\ pc[t] = "idle"
    /\ \E a \in CapabilitiesArgs :
        LET h == HandlerOf(a)
            loaded == GetCapabilities_load_from_kv(a)
            failed == \/ loaded.exc # NoExc
                      \/ GetCapabilities_validate(loaded.obj,
                                                  IF h = "wcs" THEN STR_WCS ELSE STR_WMS) # NoExc
        IN  /\ targs' = [targs EXCEPT ![t] = a]
            /\ thandler' = [thandler EXCEPT ![t] = h]
            /\ IF failed
               THEN /\ tresponse' = [tresponse EXCEPT ![t] = Raise(ParseFailure(loaded.exc))]
                    /\ pc' = [pc EXCEPT ![t] = "done"]
                    /\ UNCHANGED <<wcs_base_url, wms_base_url>>
               ELSE /\ tresponse' = tresponse
                    /\ pc' = [pc EXCEPT ![t] = "to_xml"]
                    /\ IF h = "wcs"
                       THEN /\ wcs_base_url' = CapabilitiesBaseUrl(a, wcs_base_url)
                            /\ wms_base_url' = wms_base_url
                       ELSE /\ wms_base_url' = CapabilitiesBaseUrl(a, wms_base_url)
                            /\ wcs_base_url' = wcs_base_url
    /\ UNCHANGED <<server_address, endpoint, coverages, tdoc, seq_vars, parse_vars>>

\* wcs_response_1_0_0.Capabilities.to_xml
WcsToXml(t) ==
    /\ pc[t] = "to_xml"
    /\ thandler[t] = "wcs"
    /\ tresponse' = [tresponse EXCEPT ![t] = Xml(WcsCapabilities_to_xml(wcs_base_url, coverages))]
    /\ coverages' = TrimCoverages(coverages)
    /\ pc' = [pc EXCEPT ![t] = "done"]
    /\ UNCHANGED <<server_address, endpoint, wcs_base_url, wms_base_url, targs, thandler,
                   tdoc, seq_vars, parse_vars>>

\* wms_response_1_3_0.Capabilities.to_xml evaluates service(), request() and
\* layers() one after the other; each reads base_url
WmsToXmlService(t) ==
    /\ pc[t] = "to_xml"
    /\ thandler[t] = "wms"
    /\ tdoc' = [tdoc EXCEPT ![t] = [service |-> WmsCapabilities_service(wms_base_url)]]
    /\ pc' = [pc EXCEPT ![t] = "request"]
    /\ UNCHANGED <<ogc_vars, targs, thandler, tresponse, seq_vars, parse_vars>>

WmsToXmlRequest(t) ==
    /\ pc[t] = "request"
    /\ tdoc' = [tdoc EXCEPT ![t] = [service |-> tdoc[t].service,
                                    request |-> WmsCapabilities_request(wms_base_url)]]
    /\ pc' = [pc EXCEPT ![t] = "layers"]
    /\ UNCHANGED <<ogc_vars, targs, thandler, tresponse, seq_vars, parse_vars>>

WmsToXmlLayers(t) ==
    /\ pc[t] = "layers"
    /\ tresponse' = [tresponse EXCEPT ![t] =
                        Xml([root |-> "WMS_Capabilities",
                             service |-> tdoc[t].service,
                             request |-> tdoc[t].request,
                             layers |-> WmsCapabilities_layers(wms_base_url, coverages)])]
    /\ tdoc' = [tdoc EXCEPT ![t] = NoneVal]
    /\ pc' = [pc EXCEPT ![t] = "done"]
    /\ UNCHANGED <<ogc_vars, targs, thandler, seq_vars, parse_vars>>

\* the thread's response has been sent
CapabilitiesEnd(t) ==
    /\ pc[t] = "done"
    /\ pc' = [pc EXCEPT ![t] = "idle"]
    /\ targs' = [targs EXCEPT ![t] = NoArgs]
    /\ thandler' = [thandler EXCEPT ![t] = "none"]
    /\ tresponse' = [tresponse EXCEPT ![t] = NoResponse]
    /\ UNCHANGED <<ogc_vars, tdoc, seq_vars, parse_vars>>

NextConc ==
    \E t \in Threads :
        \/ CapabilitiesBegin(t)
        \/ WcsToXml(t)
        \/ WmsToXmlService(t)
        \/ WmsToXmlRequest(t)
        \/ WmsToXmlLayers(t)
        \/ CapabilitiesEnd(t)

SpecConc == Init /\ [][NextConc]_vars

(***************************************************************************)
(* The request classes used on their own: a caller fills an object with     *)
(* load_from_kv(args), validates it, and prepares the args for podpac.      *)
(***************************************************************************)
\* one OGC instance is enough here: no request class reads it
InitParsers == Init /\ coverages = <<Coverage(Layer1), Coverage(Layer2)>>

\* obj = cls(); obj.load_from_kv(args)
LoadFromKv ==
    /\ phase = "received"
    /\ parser = "none"
    /\ \E cls \in ParserClasses :
        /\ parser' = cls
        /\ load_result' = load_from_kv(cls, args)
    /\ UNCHANGED <<ogc_vars, seq_vars, validated, converted, thread_vars>>

\* obj.validate(), after a load_from_kv that raised nothing
Validate ==
    /\ parser # "none"
    /\ load_result.exc = NoExc
    /\ validated = NotRun
    /\ validated' = validate(parser, load_result.obj)
    /\ UNCHANGED <<ogc_vars, seq_vars, parser, load_result, converted, thread_vars>>

\* _crs84_to_epsg4326(_uppercase_for_dict_keys(args)) for a request that is
\* on its way to the Layer
Crs84ToEpsg4326 ==
    /\ parser \in {"wcs.GetCoverage", "wms.GetMap"}
    /\ validated = NoExc
    /\ converted = NotRun
    /\ converted' = crs84_to_epsg4326(uppercase_for_dict_keys(args))
    /\ UNCHANGED <<ogc_vars, seq_vars, parser, load_result, validated, thread_vars>>

\* the request object and its args are dropped
Discard ==
    /\ parser # "none"
    /\ phase' = "idle"
    /\ args' = NoArgs
    /\ parser' = "none"
    /\ load_result' = NotRun
    /\ validated' = NotRun
    /\ converted' = NotRun
    /\ UNCHANGED <<ogc_vars, handler, response, layer_calls, gc_collects, events, http,
                   thread_vars>>

NextParsers == Receive \/ LoadFromKv \/ Validate \/ Crs84ToEpsg4326 \/ Discard

SpecParsers == InitParsers /\ [][NextParsers]_vars

(***************************************************************************)
(* The flask server in front of the dispatcher.                             *)
(***************************************************************************)
\* the layouts of the keys of a query: as the caller of the handlers writes
\* them, and as the links of servers.home() write them
KeyCases == {"lower", "upper"}

\* request.args of a GET request: the pairs of a request of the model,
\* base_url (which ogc_render sets itself) left out
Query(a, key_case) ==
    LET q == [k \in DOMAIN a \ {"base_url"} |-> a[k]]
    IN  IF key_case = "upper"
        THEN [K \in {UpperKey(k) : k \in DOMAIN q} |->
                 q[CHOOSE k \in DOMAIN q : UpperKey(k) = K]]
        ELSE q

\* request.base_url of a GET request
RequestBaseUrls(addr, ep) == {STR_empty, addr \o ep}

\* FlaskServer.ogc_render for a GET request with a query: builds args, calls
\* the handler of the service and renders what it returned or raised
OgcRender ==
    /\ phase = "idle"
    /\ \E a \in RequestArgs(WcsForms \cup WmsForms), key_case \in KeyCases,
          url \in RequestBaseUrls(server_address, endpoint), layer_ok \in BOOLEAN :
        LET query == Query(a, key_case)
            render_args == RenderArgs(query, url)
            d == render_dispatch(render_args, coverages, wcs_base_url, wms_base_url, layer_ok)
        IN  /\ DOMAIN query # {}
            /\ args' = render_args
            /\ handler' = d.handler
            /\ response' = d.out.response
            /\ layer_calls' = d.out.layer_calls
            /\ gc_collects' = d.out.gc_collects
            /\ events' = d.out.events
            /\ wcs_base_url' = IF d.handler = "wcs" THEN d.out.base_url ELSE wcs_base_url
            /\ wms_base_url' = IF d.handler = "wms" THEN d.out.base_url ELSE wms_base_url
            /\ http' = render_response(d.out.response)
            /\ coverages' = CoveragesAfter(coverages, d.out.response)
    /\ phase' = "done"
    /\ UNCHANGED <<server_address, endpoint, parse_vars, thread_vars>>

NextRender == OgcRender \/ Return

SpecRender == Init /\ [][NextRender]_vars

(***************************************************************************)
(* Layers with a grid of their own: an OGC instance is constructed from one *)
(* layer whose GridCoordinates is given a geotransform and sizes, and       *)
(* serves GetCapabilities requests.                                         *)
(***************************************************************************)
\* the grids of the model: [origin_x, pixel_w, 0, origin_y, 0, pixel_h] with
\* pixel sizes of either sign, and sizes that are not negative
Grids ==
    { GridCoordinates(<<origin_x, pixel_w, 0, origin_y, 0, pixel_h>>, x_size, y_size) :
        origin_x \in {0 - 180, 0}, pixel_w \in {0 - 1, 1},
        origin_y \in {0 - 90, 90}, pixel_h \in {0 - 1, 1},
        x_size \in {0, 360}, y_size \in {0, 180} }

\* OGC.__init__ with layers=[layer], layer.grid_coordinates being any grid
InitGrid ==
    /\ \E grid \in Grids :
          coverages = <<Coverage([Layer1 EXCEPT !.grid_coordinates = grid])>>
    /\ server_address = STR_server_address
    /\ endpoint = <<"/", "o", "g", "c">>
    /\ wcs_base_url = OGC_base_url(server_address, endpoint)
    /\ wms_base_url = OGC_base_url(server_address, endpoint)
    /\ phase = "idle"
    /\ args = NoArgs
    /\ handler = "none"
    /\ response = NoResponse
    /\ layer_calls = <<>>
    /\ gc_collects = 0
    /\ events = <<>>
    /\ http = NoHttp
    /\ parser = "none"
    /\ load_result = NotRun
    /\ validated = NotRun
    /\ converted = NotRun
    /\ pc = [t \in Threads |-> "idle"]
    /\ targs = [t \in Threads |-> NoArgs]
    /\ thandler = [t \in Threads |-> "none"]
    /\ tdoc = [t \in Threads |-> NoneVal]
    /\ tresponse = [t \in Threads |-> NoResponse]

\* the caller builds the args of a GetCapabilities request
ReceiveCapabilities ==
    /\ phase = "idle"
    /\ \E a \in CapabilitiesArgs : args' = a
    /\ phase' = "received"
    /\ UNCHANGED <<ogc_vars, handler, response, layer_calls, gc_collects, events, http,
                   parse_vars, thread_vars>>

NextGrid == ReceiveCapabilities \/ HandleWcsKv \/ Return

SpecGrid == InitGrid /\ [][NextGrid]_vars

(***************************************************************************)
(* Properties.                                                              *)
(***************************************************************************)
\* the request in hand carries key k with value v
ArgIs(k, v) == Has(args, k) /\ args[k] = v

\* identifier names one of the registered coverages
Registered(identifier) ==
    \E i \in 1..Len(coverages) : coverages[i].identifier = identifier

\* a is a GetMap request of version 1.3.0 that the GetMap parser accepts
WellFormedGetMap(a) ==
    /\ Has(a, "request") /\ Lower(a["request"]) = STR_getmap
    /\ Has(a, "version") /\ a["version"] = STR_1_3_0
    /\ GetMap_load_from_kv(a).exc = NoExc
    /\ GetMap_validate(GetMap_load_from_kv(a).obj) = NoExc

\* a is a GetCoverage request of version 1.0.0 that the GetCoverage parser accepts
WellFormedGetCoverage(a) ==
    /\ Has(a, "request") /\ a["request"] = STR_GetCoverage
    /\ Has(a, "version") /\ a["version"] = STR_1_0_0
    /\ GetCoverage_load_from_kv(a).exc = NoExc
    /\ GetCoverage_validate(GetCoverage_load_from_kv(a).obj) = NoExc

\* a is a DescribeCoverage request of version 1.0.0 that its parser accepts
WellFormedDescribeCoverage(a) ==
    /\ Has(a, "request") /\ a["request"] = STR_DescribeCoverage
    /\ Has(a, "version") /\ a["version"] = STR_1_0_0
    /\ DescribeCoverage_load_from_kv(a).exc = NoExc
    /\ DescribeCoverage_validate(DescribeCoverage_load_from_kv(a).obj) = NoExc

\* a is a GetLegendGraphic request of version 1.3.0 that its parser accepts
WellFormedGetLegendGraphic(a) ==
    /\ Has(a, "request") /\ Lower(a["request"]) = STR_getlegendgraphic
    /\ Has(a, "version") /\ a["version"] = STR_1_3_0
    /\ GetLegendGraphic_load_from_kv(a).exc = NoExc
    /\ GetLegendGraphic_validate(GetLegendGraphic_load_from_kv(a).obj) = NoExc

\* a with key k set to v / without key k
With(a, k, v) == [x \in DOMAIN a \cup {k} |-> IF x = k THEN v ELSE a[x]]

Without(a, k) == [x \in DOMAIN a \ {k} |-> a[x]]

\* the width and height a request asks for
GridSize(a) == ParseInt(a["width"]).v * ParseInt(a["height"]).v

\* the handler raised a WCSException with this code
RaisedCode(code) ==
    /\ response.kind = "raised"
    /\ response.exc.type = "WCSException"
    /\ response.exc.exception_code = code

\* the handler raised a WCSException with this code and locator
RaisedAt(code, loc) == RaisedCode(code) /\ response.exc.locator = loc

------------------------------------------------------------------------------
\* the request in hand is an accepted GetMap / GetCoverage for a registered
\* layer whose width*height exceeds MAX_GRID_COORDS_REQUEST_SIZE
OversizeGetMap ==
    /\ phase = "done" /\ handler = "wms"
    /\ WellFormedGetMap(args) /\ Registered(args["layers"])
    /\ GridSize(args) > MAX_GRID_COORDS_REQUEST_SIZE

OversizeGetCoverage ==
    /\ phase = "done" /\ handler = "wcs"
    /\ WellFormedGetCoverage(args) /\ Registered(args["coverage"])
    /\ GridSize(args) > MAX_GRID_COORDS_REQUEST_SIZE

\* C1: a GetMap or GetCoverage request that is otherwise valid, names a
\* registered layer and asks for more than MAX_GRID_COORDS_REQUEST_SIZE grid
\* points is answered with a WCSException of code InvalidParameterValue, and
\* no Layer method is called.
C1_OversizeRejected ==
    (OversizeGetMap \/ OversizeGetCoverage) =>
        RaisedCode("InvalidParameterValue") /\ layer_calls = <<>>

\* C1 happens: an oversize GetMap was rejected by the size check
C1_Witness ==
    /\ OversizeGetMap
    /\ response.exc = GridTooLarge
    /\ layer_calls = <<>>

\* C2: a GetMap request of version 1.3.0 for a registered layer, valid but
\* for WIDTH=0 (HEIGHT=0), is answered with InvalidParameterValue, locator
\* VERSION and the text "x_size (y_size) must be greater than 0", and
\* get_map is not called.
C2_ZeroSizeGetMap ==
    /\ ( /\ phase = "done" /\ handler = "wms"
         /\ ArgIs("width", STR_0)
         /\ WellFormedGetMap(With(args, "width", STR_256))
         /\ Registered(args["layers"]) )
       => ( /\ RaisedAt("InvalidParameterValue", "VERSION")
            /\ response.exc.exception_text = "Grid coordinates x_size must be greater than 0"
            /\ layer_calls = <<>> )
    /\ ( /\ phase = "done" /\ handler = "wms"
         /\ ArgIs("height", STR_0)
         /\ WellFormedGetMap(With(args, "height", STR_256))
         /\ Registered(args["layers"]) )
       => ( /\ RaisedAt("InvalidParameterValue", "VERSION")
            /\ response.exc.exception_text = "Grid coordinates y_size must be greater than 0"
            /\ layer_calls = <<>> )

\* C3: a GetCoverage request of version 1.0.0 for a registered coverage,
\* valid but for width=0 or height=0, is answered with InvalidParameterValue
\* and the text "x_size (y_size) must be greater than 0", and get_coverage
\* is not called.
C3_ZeroSizeGetCoverage ==
    /\ ( /\ phase = "done" /\ handler = "wcs"
         /\ ArgIs("width", STR_0)
         /\ WellFormedGetCoverage(With(args, "width", STR_256))
         /\ Registered(args["coverage"]) )
       => ( /\ RaisedCode("InvalidParameterValue")
            /\ response.exc.exception_text = "Grid coordinates x_size must be greater than 0"
            /\ layer_calls = <<>> )
    /\ ( /\ phase = "done" /\ handler = "wcs"
         /\ ArgIs("height", STR_0)
         /\ WellFormedGetCoverage(With(args, "height", STR_256))
         /\ Registered(args["coverage"]) )
       => ( /\ RaisedCode("InvalidParameterValue")
            /\ response.exc.exception_text = "Grid coordinates y_size must be greater than 0"
            /\ layer_calls = <<>> )

\* C4: in handle_wcs_kv, for a request other than GetCapabilities, the
\* exception InvalidParameterValue / VERSION is raised if and only if
\* args["version"] is not "1.0.0".
C4_WcsVersionGate ==
    ( /\ phase = "done" /\ handler = "wcs"
      /\ Has(args, "request") /\ args["request"] # STR_GetCapabilities
      /\ Has(args, "version") )
    => ( (RaisedAt("InvalidParameterValue", "VERSION") /\ response.exc = UnsupportedVersion)
         <=> args["version"] # STR_1_0_0 )

\* C5: a DescribeCoverage request of version 1.0.0 whose COVERAGE lists
\* registered identifiers is answered with a CoverageDescription of one
\* CoverageOffering per requested identifier, in the order of the request.
C5_DescribeCoverageOfferings ==
    ( /\ phase = "done" /\ handler = "wcs"
      /\ WellFormedDescribeCoverage(args)
      /\ \A i \in 1..Len(Split(args["coverage"], ",")) :
            Registered(Split(args["coverage"], ",")[i]) )
    => ( /\ response.kind = "xml"
         /\ response.doc.root = "CoverageDescription"
         /\ Len(response.doc.offerings) = Len(Split(args["coverage"], ","))
         /\ \A i \in 1..Len(response.doc.offerings) :
               response.doc.offerings[i].name = Split(args["coverage"], ",")[i] )

\* C6: a request of the supported version, valid but for naming an
\* identifier that is not registered, is answered with InvalidParameterValue
\* and locator COVERAGE, and no Layer method is called.
C6_UnknownIdentifier ==
    ( /\ phase = "done"
      /\ \/ /\ handler = "wcs"
            /\ WellFormedDescribeCoverage(args)
            /\ \E i \in 1..Len(Split(args["coverage"], ",")) :
                  ~Registered(Strip(Split(args["coverage"], ",")[i]))
         \/ /\ handler = "wcs"
            /\ WellFormedGetCoverage(args)
            /\ ~Registered(args["coverage"])
         \/ /\ handler = "wms"
            /\ WellFormedGetMap(args)
            /\ ~Registered(args["layers"])
         \/ /\ handler = "wms"
            /\ WellFormedGetLegendGraphic(args)
            /\ ~Registered(args["layer"]) )
    => RaisedAt("InvalidParameterValue", "COVERAGE") /\ layer_calls = <<>>

\* C7: a GetCoverage or GetMap request, valid but for a time value with a
\* comma in it, is answered with InvalidParameterValue and locator TIME.
C7_TimeWithComma ==
    ( /\ phase = "done"
      /\ Has(args, "time") /\ Contains(args["time"], <<",">>)
      /\ \/ handler = "wcs" /\ WellFormedGetCoverage(Without(args, "time"))
         \/ handler = "wms" /\ WellFormedGetMap(Without(args, "time")) )
    => RaisedAt("InvalidParameterValue", "TIME")

\* C8: a base_url override is request-scoped: once the call has returned the
\* shared capabilities documents hold the construction-time base_url again,
\* and a GetCapabilities without a base_url is answered with it.
C8_OverrideRequestScoped ==
    /\ phase = "idle" =>
          /\ wcs_base_url = OGC_base_url(server_address, endpoint)
          /\ wms_base_url = OGC_base_url(server_address, endpoint)
    /\ ( /\ phase = "done" /\ handler = "wcs"
         /\ ArgIs("request", STR_GetCapabilities)
         /\ response.kind = "xml"
         /\ Has(args, "base_url") /\ args["base_url"] \in {NoneVal, STR_empty} )
       => \A i \in 1..3 :
             response.doc.online_resources[i] = OGC_base_url(server_address, endpoint)
    /\ ( /\ phase = "done" /\ handler = "wms"
         /\ ArgIs("request", STR_GetCapabilities)
         /\ response.kind = "xml"
         /\ Has(args, "base_url") /\ args["base_url"] \in {NoneVal, STR_empty} )
       => response.doc.service = OGC_base_url(server_address, endpoint)

\* C9: when GetCapabilities requests with different base_url values are
\* handled concurrently, the URLs of each response are built from the
\* base_url of its own request.
C9_OwnBaseUrl ==
    \A t \in Threads :
        ( /\ pc[t] = "done"
          /\ tresponse[t].kind = "xml"
          /\ targs[t]["base_url"] \notin {NoneVal, STR_empty} )
        => IF thandler[t] = "wcs"
           THEN \A i \in 1..3 : tresponse[t].doc.online_resources[i] = targs[t]["base_url"]
           ELSE /\ tresponse[t].doc.service = targs[t]["base_url"]
                /\ \A i \in 1..2 : tresponse[t].doc.request[i] = targs[t]["base_url"]
                /\ \A i \in 1..Len(tresponse[t].doc.layers) :
                      tresponse[t].doc.layers[i].legend_base = LegendBase(targs[t]["base_url"])

\* C10: a WCSException that a request parser raises in load_from_kv or
\* validate leaves the dispatcher with its code and locator: a GetMap or
\* GetCoverage request whose bbox is out of range is answered with
\* InvalidParameterValue and locator BBOX.
C10_ParserExceptionPreserved ==
    /\ ( /\ phase = "done" /\ handler = "wms"
         /\ Has(args, "request") /\ Lower(args["request"]) = STR_getmap
         /\ Has(args, "version") /\ args["version"] = STR_1_3_0
         /\ GetMap_load_from_kv(args).exc = NoExc
         /\ GetMap_validate(GetMap_load_from_kv(args).obj).type = "WCSException" )
       => /\ response.kind = "raised"
          /\ response.exc = GetMap_validate(GetMap_load_from_kv(args).obj)
          /\ RaisedAt("InvalidParameterValue", "BBOX")
    /\ ( /\ phase = "done" /\ handler = "wcs"
         /\ ArgIs("request", STR_GetCoverage)
         /\ ArgIs("version", STR_1_0_0)
         /\ GetCoverage_load_from_kv(args).exc = NoExc
         /\ GetCoverage_validate(GetCoverage_load_from_kv(args).obj).type = "WCSException" )
       => /\ response.kind = "raised"
          /\ RaisedAt("InvalidParameterValue", "BBOX")

------------------------------------------------------------------------------
\* C11: when the Layer's get_map, get_coverage or get_legend_graphic raises,
\* the handler raises a WCSException with the default code NoApplicableCode;
\* no exception of the Layer leaves the handler as it is.
C11_LayerExceptionWrapped ==
    ( /\ phase = "done"
      /\ layer_calls # <<>>
      /\ response.kind = "raised" )
    => ( /\ response.exc.type = "WCSException"
         /\ response.exc.exception_code = "NoApplicableCode" )

------------------------------------------------------------------------------
\* the CRS a GetCoverage / GetMap request asks for: crs, and request_crs
\* when there is no crs
RequestCrs(a) == IF Has(a, "crs") THEN a["crs"] ELSE a["request_crs"]

\* the numbers of a comma-separated value
FloatsOf(s) == [i \in 1..Len(Split(s, ",")) |-> ParseFloat(Split(s, ",")[i]).v]

\* the bounding box of the request object that has been filled
ParsedBBox ==
    IF parser = "wcs.GetCoverage" THEN load_result.obj.domain_subset_bbox
    ELSE load_result.obj.bbox

\* a GetCoverage or GetMap object has been filled from the args in hand
BBoxRequestLoaded ==
    /\ parser \in {"wcs.GetCoverage", "wms.GetMap"}
    /\ load_result.exc = NoExc

\* C13: both parsers normalise CRS:84 alike: for a request CRS of "crs:84"
\* (in any case) and bbox minx,miny,maxx,maxy the parsed request has crs
\* "epsg:4326", lower corner (miny,minx) and upper corner (maxy,maxx); for
\* any other allowed CRS the corners are (minx,miny) and (maxx,maxy) and the
\* CRS is the requested one.
C13_Crs84Normalised ==
    BBoxRequestLoaded =>
        LET b == FloatsOf(args["bbox"])
        IN  IF Lower(RequestCrs(args)) = STR_crs_84
            THEN /\ load_result.obj.crs = STR_epsg_4326
                 /\ ParsedBBox.lower_corner = <<b[2], b[1]>>
                 /\ ParsedBBox.upper_corner = <<b[4], b[3]>>
            ELSE /\ load_result.obj.crs = Lower(RequestCrs(args))
                 /\ ParsedBBox.lower_corner = <<b[1], b[2]>>
                 /\ ParsedBBox.upper_corner = <<b[3], b[4]>>

\* C13 happens: GetCoverage with CRS=CRS:84 and BBOX=10,20,30,40 was parsed
C13_Witness ==
    /\ parser = "wcs.GetCoverage"
    /\ load_result.exc = NoExc
    /\ ArgIs("crs", STR_CRS_84)
    /\ ArgIs("bbox", STR_bbox_10_20_30_40)
    /\ load_result.obj.domain_subset_bbox.lower_corner = <<20, 10>>
    /\ load_result.obj.domain_subset_bbox.upper_corner = <<40, 30>>

\* C14: the CRS:84 axis swap is an involution: exchanging x and y in each
\* corner of the parsed bbox gives the request's tuple back; and the WCS
\* parser, the WMS parser and _crs84_to_epsg4326 give the same swapped tuple
\* (miny,minx,maxy,maxx) for a bbox of four numbers.
C14_SwapInvolution ==
    ( /\ BBoxRequestLoaded
      /\ Has(args, "crs") /\ Lower(args["crs"]) = STR_crs_84
      /\ Len(Split(args["bbox"], ",")) = 4 )
    => LET b == FloatsOf(args["bbox"])
           box == ParsedBBox
       IN  /\ <<box.lower_corner[2], box.lower_corner[1],
                box.upper_corner[2], box.upper_corner[1]>> = b
           /\ <<box.lower_corner[1], box.lower_corner[2],
                box.upper_corner[1], box.upper_corner[2]>> = <<b[2], b[1], b[4], b[3]>>
           /\ converted # NotRun =>
                 FloatsOf(converted["BBOX"]) = <<box.lower_corner[1], box.lower_corner[2],
                                                 box.upper_corner[1], box.upper_corner[2]>>

\* C14 happens: a GetMap in CRS:84 was parsed and its args were converted
C14_Witness ==
    /\ parser = "wms.GetMap"
    /\ load_result.exc = NoExc
    /\ ArgIs("crs", STR_CRS_84)
    /\ ArgIs("bbox", <<"1", "0", "0", ",", "1", "0", ",", "1", "2", "0", ",", "2", "0">> (* 100,10,120,20 *))
    /\ converted # NotRun
    /\ FloatsOf(converted["BBOX"]) = <<10, 100, 20, 120>>
    /\ converted["CRS"] = STR_EPSG_4326

------------------------------------------------------------------------------
\* C15: handle_wms_kv checks GetCapabilities, then GetFeatureInfo, then the
\* version: a GetFeatureInfo request is answered with OperationNotSupported
\* / REQUEST whatever its version, a missing one included; every other
\* request that is not GetCapabilities and whose version is missing or not
\* "1.3.0" is answered with InvalidParameterValue / VERSION, unparsed and
\* with no Layer call.
C15_WmsCheckOrder ==
    ( /\ phase = "done" /\ handler = "wms"
      /\ Has(args, "request") /\ args["request"] # STR_GetCapabilities )
    => /\ args["request"] = STR_GetFeatureInfo
            => RaisedAt("OperationNotSupported", "REQUEST") /\ layer_calls = <<>>
       /\ ( /\ args["request"] # STR_GetFeatureInfo
            /\ (~Has(args, "version") \/ args["version"] # STR_1_3_0) )
            => /\ RaisedAt("InvalidParameterValue", "VERSION")
               /\ response.exc.exception_text = "Unsupported version"
               /\ layer_calls = <<>>

\* C15 happens: a GetFeatureInfo request without version was refused as
\* an unsupported operation
C15_Witness ==
    /\ phase = "done" /\ handler = "wms"
    /\ ArgIs("request", STR_GetFeatureInfo)
    /\ ~Has(args, "version")
    /\ RaisedAt("OperationNotSupported", "REQUEST")

\* C16: every GetMap request for which the layer's get_map is called has
\* width > 0 and height > 0; a request with a zero or negative width or
\* height never reaches the Layer.
C16_PositiveSizeAtLayer ==
    ( /\ phase = "done" /\ handler = "wms"
      /\ layer_calls # <<>>
      /\ layer_calls[1].method = "get_map" )
    => /\ ParseInt(args["width"]).v > 0
       /\ ParseInt(args["height"]).v > 0

------------------------------------------------------------------------------
\* C17: a GetCoverage request without crs and without request_crs, valid
\* otherwise, is loaded and validated without an exception, its crs is the
\* native "epsg:4326" and its bbox corners are as the request gives them.
C17_MissingCrsDefaults ==
    ( /\ parser = "wcs.GetCoverage"
      /\ ~Has(args, "crs") /\ ~Has(args, "request_crs")
      /\ WellFormedGetCoverage(With(args, "crs", STR_EPSG_4326)) )
    => /\ load_result.exc = NoExc
       /\ validated # NotRun => validated = NoExc
       /\ load_result.obj.crs = STR_epsg_4326
       /\ load_result.obj.domain_subset_bbox.lower_corner
              = <<FloatsOf(args["bbox"])[1], FloatsOf(args["bbox"])[2]>>
       /\ load_result.obj.domain_subset_bbox.upper_corner
              = <<FloatsOf(args["bbox"])[3], FloatsOf(args["bbox"])[4]>>

\* C18: GetCoverage.validate accepts a bbox minx,miny,maxx,maxy exactly when
\* both longitudes (minx, maxx) are at most 361 in magnitude and both
\* latitudes (miny, maxy) at most 91, whichever allowed CRS is requested,
\* CRS:84 included; a bbox it rejects is rejected with InvalidParameterValue
\* / BBOX.
C18_WcsBBoxBounds ==
    ( /\ parser = "wcs.GetCoverage"
      /\ load_result.exc = NoExc
      /\ validated # NotRun
      /\ WellFormedGetCoverage(With(args, "bbox", STR_bbox_10_20_30_40)) )
    => LET b == FloatsOf(args["bbox"])
           in_range == /\ Abs(b[1]) <= 361 /\ Abs(b[3]) <= 361
                       /\ Abs(b[2]) <= 91 /\ Abs(b[4]) <= 91
       IN  /\ validated = NoExc <=> in_range
           /\ validated # NoExc =>
                 /\ validated.type = "WCSException"
                 /\ validated.exception_code = "InvalidParameterValue"
                 /\ validated.locator = "BBOX"

\* C19: a request whose identifier is empty fails validation: GetCoverage,
\* GetMap and GetLegendGraphic validate() raise for an empty coverage /
\* layers / layer value, as DescribeCoverage.validate does for an empty
\* element of its list.
C19_EmptyIdentifierRejected ==
    ( /\ load_result # NotRun
      /\ load_result.exc = NoExc
      /\ validated # NotRun
      /\ \/ parser = "wcs.GetCoverage" /\ ArgIs("coverage", STR_empty)
         \/ parser = "wms.GetMap" /\ ArgIs("layers", STR_empty)
         \/ parser = "wms.GetLegendGraphic" /\ ArgIs("layer", STR_empty)
         \/ /\ parser = "wcs.DescribeCoverage"
            /\ \E i \in 1..Len(Split(args["coverage"], ",")) :
                  Strip(Split(args["coverage"], ",")[i]) = STR_empty )
    => validated # NoExc

------------------------------------------------------------------------------
\* C20: a GetMap or GetCoverage call that returns a payload has run
\* gc.collect() exactly once, after the Layer call returned; a call that is
\* rejected before the Layer call, or whose Layer call raises, has not run
\* it.
C20_GcCollectOnce ==
    phase = "done" =>
        /\ ( /\ response.kind = "payload"
             /\ response.fp.method \in {"get_map", "get_coverage"} )
           => /\ gc_collects = 1
              /\ events = <<response.fp.method, "gc.collect">>
        /\ response.kind = "raised"
           => /\ gc_collects = 0
              /\ \A i \in 1..Len(events) : events[i] # "gc.collect"

\* C20 happens: a GetMap returned its payload after one gc.collect()
C20_Witness ==
    /\ phase = "done" /\ handler = "wms"
    /\ response.kind = "payload"
    /\ response.fp.method = "get_map"
    /\ gc_collects = 1

------------------------------------------------------------------------------
\* C21: only DescribeCoverage accepts several identifiers: a GetMap request
\* whose layers, or a GetLegendGraphic request whose layer, has a comma in it
\* fails without a Layer call, while a DescribeCoverage request with a
\* comma-separated coverage list is answered with one offering per
\* identifier when all of them are registered and fails as a whole when one
\* of them is not.
C21_MultipleLayers ==
    /\ ( /\ phase = "done" /\ handler = "wms"
         /\ Has(args, "request")
         /\ \/ /\ Lower(args["request"]) = STR_getmap
               /\ Has(args, "layers") /\ Contains(args["layers"], <<",">>)
            \/ /\ Lower(args["request"]) = STR_getlegendgraphic
               /\ Has(args, "layer") /\ Contains(args["layer"], <<",">>) )
       => response.kind = "raised" /\ layer_calls = <<>>
    /\ ( /\ phase = "done" /\ handler = "wcs"
         /\ WellFormedDescribeCoverage(args)
         /\ Contains(args["coverage"], <<",">>) )
       => LET ids == Split(args["coverage"], ",")
          IN  IF \A i \in 1..Len(ids) : Registered(Strip(ids[i]))
              THEN /\ response.kind = "xml"
                   /\ Len(response.doc.offerings) = Len(ids)
                   /\ \A i \in 1..Len(ids) : response.doc.offerings[i].name = Strip(ids[i])
              ELSE response.kind = "raised"

------------------------------------------------------------------------------
\* C22: the filename of a WMS payload (GetMap, GetLegendGraphic) is the
\* identifier of the registered layer followed by ".png", also when the
\* identifier has a "." in it; the filename of a GetCoverage payload is the
\* last dot-separated part of the identifier followed by ".tif".
C22_WmsFilenameIsIdentifier ==
    ( phase = "done" /\ response.kind = "payload" )
    => IF response.fp.method = "get_coverage"
       THEN response.fn = LastPart(response.fp.layer, ".") \o <<".", "t", "i", "f">>
       ELSE response.fn = response.fp.layer \o <<".", "p", "n", "g">>

\* C22 as the code has it: the filename of every payload is the last
\* dot-separated part of the identifier of the registered layer, followed by
\* ".png" for GetMap and GetLegendGraphic and by ".tif" for GetCoverage.
C22_FilenameIsLeaf ==
    ( phase = "done" /\ response.kind = "payload" )
    => /\ Registered(response.fp.layer)
       /\ LET parts == Split(response.fp.layer, ".")
              leaf == parts[Len(parts)]
          IN  IF response.fp.method = "get_coverage"
              THEN response.fn = leaf \o <<".", "t", "i", "f">>
              ELSE response.fn = leaf \o <<".", "p", "n", "g">>

\* C22 happens: a payload was returned for the layer a.b, named b.png
C22_Witness ==
    /\ phase = "done" /\ handler = "wms"
    /\ response.kind = "payload"
    /\ response.fp.layer = <<"a", ".", "b">>
    /\ response.fn = <<"b", ".", "p", "n", "g">>

------------------------------------------------------------------------------
\* C23: the registered coverage list never changes after construction:
\* whatever a step of the program does (a handler call of any operation,
\* successful or failing), the list get_coverage_from_id scans is the same
\* after it as before it, and every identifier that was registered before
\* the step is still found after it.
C23_CoveragesImmutable ==
    [][ /\ coverages' = coverages
        /\ \A i \in 1..Len(coverages) :
              get_coverage_from_id(coverages', coverages[i].identifier).exc = NoExc ]_vars

\* C23 happens: a WCS GetCapabilities document was built, which runs
\* contents(), on an instance with two registered coverages
C23_Witness ==
    /\ phase = "done" /\ handler = "wcs"
    /\ response.kind = "xml"
    /\ response.doc.root = "WCS_Capabilities"
    /\ Len(response.doc.contents) = 2
    /\ Len(coverages) = 2

------------------------------------------------------------------------------
\* C24: the WCS capabilities contents skip a coverage that misses a required
\* field: the number of CoverageOfferingBrief entries equals the number of
\* registered coverages that have a non-empty identifier and a non-empty
\* title, and building the document raises nothing.
C24_IncompleteCoverageSkipped ==
    ( /\ phase = "done" /\ handler = "wcs"
      /\ ArgIs("request", STR_GetCapabilities)
      /\ ArgIs("service", STR_WCS)
      /\ Has(args, "base_url") )
    => /\ response.kind = "xml"
       /\ response.doc.root = "WCS_Capabilities"
       /\ Len(response.doc.contents) =
             Cardinality({i \in 1..Len(coverages) :
                             /\ coverages[i].identifier # STR_empty
                             /\ coverages[i].title # STR_empty})

------------------------------------------------------------------------------
\* the CRS names the two services allow, in lower case
AllowedWcsCrs == {<<"e", "p", "s", "g", ":", "4", "3", "2", "6">>, <<"c", "r", "s", ":", "8", "4">>}

AllowedWmsCrs == AllowedWcsCrs \cup {<<"e", "p", "s", "g", ":", "3", "8", "5", "7">>}

\* a carries key k with a value that, in lower case, is not in allowed
CrsNotAllowed(a, k, allowed) == Has(a, k) /\ Lower(a[k]) \notin allowed

\* C25: a GetCoverage or GetMap request whose crs (or request_crs), compared
\* in lower case, is not in the allowed set of its service fails in
\* load_from_kv and no Layer method is called; a GetCoverage request that
\* carries both request_crs and crs loads only if both are allowed, and the
\* request is then in the CRS that crs names.
C25_CrsAllowList ==
    /\ ( /\ phase = "done" /\ handler = "wms"
         /\ Has(args, "request") /\ Lower(args["request"]) = STR_getmap
         /\ CrsNotAllowed(args, "crs", AllowedWmsCrs) )
       => /\ GetMap_load_from_kv(args).exc # NoExc
          /\ response.kind = "raised"
          /\ layer_calls = <<>>
    /\ ( /\ phase = "done" /\ handler = "wcs"
         /\ ArgIs("request", STR_GetCoverage)
         /\ \/ CrsNotAllowed(args, "crs", AllowedWcsCrs)
            \/ CrsNotAllowed(args, "request_crs", AllowedWcsCrs) )
       => /\ GetCoverage_load_from_kv(args).exc # NoExc
          /\ response.kind = "raised"
          /\ layer_calls = <<>>
    /\ ( /\ phase = "done" /\ handler = "wcs"
         /\ ArgIs("request", STR_GetCoverage)
         /\ Has(args, "crs") /\ Has(args, "request_crs")
         /\ GetCoverage_load_from_kv(args).exc = NoExc )
       => LET obj == GetCoverage_load_from_kv(args).obj
              parts == Split(args["bbox"], ",")
              swapped == Lower(args["crs"]) = <<"c", "r", "s", ":", "8", "4">>
          IN  /\ Lower(args["crs"]) \in AllowedWcsCrs
              /\ Lower(args["request_crs"]) \in AllowedWcsCrs
              /\ obj.crs = IF swapped THEN <<"e", "p", "s", "g", ":", "4", "3", "2", "6">>
                           ELSE Lower(args["crs"])
              /\ obj.domain_subset_bbox.lower_corner[1] =
                    ParseFloat(parts[IF swapped THEN 2 ELSE 1]).v

\* C25 happens: a GetMap request for a registered layer, valid but for its
\* crs EPSG:1, was rejected without a Layer call
C25_Witness ==
    /\ phase = "done" /\ handler = "wms"
    /\ ArgIs("crs", <<"E", "P", "S", "G", ":", "1">>)
    /\ WellFormedGetMap(With(args, "crs", STR_EPSG_4326))
    /\ Registered(args["layers"])
    /\ response.kind = "raised"
    /\ layer_calls = <<>>

------------------------------------------------------------------------------
\* C26: every GetMap request that reaches the layer's get_map keeps the
\* limits the WMS capabilities document advertises: its width is at most
\* MaxWidth and its height at most MaxHeight.
C26_AdvertisedLimits ==
    \A i \in 1..Len(layer_calls) :
        layer_calls[i].method = "get_map"
        => /\ ParseInt(layer_calls[i].args["width"]).v <= MaxWidth
           /\ ParseInt(layer_calls[i].args["height"]).v <= MaxHeight

------------------------------------------------------------------------------
\* C27: whatever the signs of pixel_w and pixel_h and whatever the sizes, the
\* lower-left corner of a grid is, in latitude and in longitude, at most the
\* upper-right corner: the wgs84 lower corner of every coverage is at most
\* its upper corner in both components.
C27_LowerCornerIsLower ==
    \A i \in 1..Len(coverages) :
        /\ coverages[i].wgs84_bounding_box_lower_corner_lat_lon[1]
              <= coverages[i].wgs84_bounding_box_upper_corner_lat_lon[1]
        /\ coverages[i].wgs84_bounding_box_lower_corner_lat_lon[2]
              <= coverages[i].wgs84_bounding_box_upper_corner_lat_lon[2]

\* C28: for every args map, the maps without request, version, base_url or a
\* required parameter included, a handler that does not return raises a
\* WCSException: apart from what a Layer method itself raises, no other kind
\* of exception (a KeyError, say) leaves handle_wcs_kv or handle_wms_kv.
C28_OnlyWcsExceptionEscapes ==
    ( /\ phase = "done"
      /\ response.kind = "raised"
      /\ response.exc.type # "LayerError" )
    => response.exc.type = "WCSException"

\* the args a, with the request name in the spelling the parsers check for
CanonicalRequest(a) ==
    With(a, "request",
         IF Lower(a["request"]) = STR_getlegendgraphic
         THEN STR_GetLegendGraphic
         ELSE <<"G", "e", "t", "M", "a", "p">>)

\* C29: a request value that handle_wms_kv routes to the GetMap or the
\* GetLegendGraphic branch is accepted by that branch's parser as well: the
\* request gets the answer the same request gets under the exact name
\* GetMap / GetLegendGraphic, so REQUEST=getlegendgraphic returns the legend
\* as REQUEST=getmap returns a map.
C29_RequestNameConsistent ==
    ( /\ phase = "done"
      /\ handler = "wms"
      /\ Has(args, "request")
      /\ Lower(args["request"]) \in {STR_getmap, STR_getlegendgraphic} )
    => \E layer_ok \in BOOLEAN :
          response = handle_wms_kv(CanonicalRequest(args), coverages, wms_base_url,
                                   layer_ok).response

\* C30: the handlers do not modify the args they are given: across a call of
\* handle_wcs_kv or handle_wms_kv, returning or raising, args stays what it
\* was, and every Layer method called has received exactly these args, with
\* the same keys and values (a CRS:84 value and the bbox string as sent).
C30_ArgsUntouched ==
    [][ phase = "received"
        => ( /\ args' = args
             /\ \A i \in 1..Len(layer_calls') : layer_calls'[i].args = args ) ]_vars

\* a GetMap request in CRS:84 reached get_map with the caller's crs and bbox
C30_Witness ==
    /\ phase = "done"
    /\ Len(layer_calls) = 1
    /\ layer_calls[1].method = "get_map"
    /\ ArgIs("crs", STR_CRS_84)
    /\ ArgIs("bbox", STR_bbox_10_20_30_40)
    /\ layer_calls[1].args["crs"] = STR_CRS_84
    /\ layer_calls[1].args["bbox"] = STR_bbox_10_20_30_40
====
